---- MODULE Spec2Model ----
(***************************************************************************)
(* Model of the shamgateway fulfilment-and-reconciliation engine:          *)
(*   - the Booking-Provider (Duffel) webhook ingestion and the queued      *)
(*     event processor with its idempotency ledger,                        *)
(*   - the e-ticket poll queue and its self-requeuing poller,              *)
(*   - the Payment-Provider (Stripe) webhook handler and intent creation,  *)
(*   - the currency minor-unit codec.                                      *)
(* The durable store is modelled with its unique-key / foreign-key         *)
(* semantics; the job queues with BullMQ's job-id semantics (an add whose  *)
(* jobId names an existing job is dropped; removeOnComplete:true deletes   *)
(* the job when its processor returns).                                    *)
(***************************************************************************)
EXTENDS Integers, Sequences, FiniteSets, Bags, TLC

\* ------------------------------------------------------------------ bounds
MaxDeliveries == 3      \* Booking-Provider webhook deliveries per behaviour

MaxRefresh == 2         \* calls of the manual refresh endpoint per behaviour
MaxStripeDeliveries == 2  \* Payment-Provider webhook deliveries per behaviour
MaxIntentRuns == 1        \* calls of createIntentForOrder per behaviour

\* ------------------------------------------------------- program constants
WebhookAttempts == 5    \* defaultJobOptions.attempts of "duffel-webhooks"
MaxAttempts == 15       \* maxAttempts of EticketPollProcessor.process

\* --------------------------------------------------------------- universes
Null == "null"
OrderIds == {"o1", "o2"}
Workers == {"w1", "w2"}
SystemUser == "system@shamgateway.com"

\* Decimal strings are sequences of character codes: 0..9 are the digits,
\* DOT is ".".
DOT == 10
NullAmt == <<-1>>
Amt100 == <<1, 0, 0, DOT, 0, 0>>
Amt40 == <<4, 0, DOT, 0, 0>>

VARIABLES
  users,            \* User table: set of user ids
  orders,           \* Order table: duffelId -> row (DOMAIN = existing rows)
  cancellations,    \* OrderCancellation table: duffelCancellationId -> row
  scheduleChanges,  \* OrderScheduleChange table: bag of [orderId]
  processedKeys,    \* ProcessedKey table (idempotency ledger): set of keys
  webhookEvents,    \* WebhookEvent audit table: event id -> [processedAt]
  whQueue,          \* "duffel-webhooks" queue: bag of waiting jobs
  wstate,           \* per worker: the job it runs and its position in process()
  deliveries,       \* number of webhook deliveries accepted so far
  pollQueue,        \* "eticket-poll" queue: set of jobs [id, orderId, attempt, state]
  pollSeq,          \* BullMQ job counter of "eticket-poll" (auto-generated ids)
  applied,          \* history: ledger key -> dispatches (step 3) that wrote a row or enqueued
  completed,        \* history: ledger key -> runs that returned after step 5
  skipped,          \* history: ledger key -> runs that returned at the ledger gate
  duffel,           \* Booking Provider: order id -> the order as GET /orders/{id} returns it
  tickets,          \* TicketDocument table: set of rows [orderId, uniqueId, type]
  orderChanges,     \* OrderChange table: set of rows [duffelChangeId, orderDuffelId]
  refreshes,        \* number of calls of the manual refresh endpoint so far
  pollLog,          \* history: order id -> attempt number of the last poll run (0: none)
  stripeDeliveries, \* number of Payment-Provider webhook deliveries so far
  pay,              \* PaymentsService.handleWebhook: position and locals of the running call
  payResult,        \* outcome of the last handleWebhook call: pending / received / raised
  settleCalls,      \* POST /payments requests sent: set of [order_id, amount, currency, idempotencyKey, pi, delivery]
  settledKeys,      \* Booking Provider: idempotency keys of the settlements it executed
  settled,          \* Booking Provider: payment-intent id -> settlements executed for it
  intents,          \* Payment Provider: payment intents created by createIntentForOrder
  stripeCalls,      \* number of paymentIntents.create requests sent
  intentRuns,       \* number of createIntentForOrder calls so far
  intentResult,     \* result of the last createIntentForOrder call
  pollRun,          \* EticketPollProcessor.process between its fetch and its writes
  ticketSchema,     \* constraints the database holds on TicketDocument (never changes)
  persisted,        \* the last direct call of persistTicketDocuments and what it returned
  refundLog,        \* the last call of refundOrder: its inputs, provider calls and result
  refundRows,       \* table Refund
  verify,           \* the last call of verifySignature: its inputs and result
  request,          \* the process environment and the last answer of DuffelWebhookController.handle
  conv              \* the last amount conversion: its inputs and results

vars == <<users, orders, cancellations, scheduleChanges, processedKeys,
          webhookEvents, whQueue, wstate, deliveries, pollQueue, pollSeq,
          applied, completed, skipped, duffel, tickets, orderChanges, refreshes, pollLog,
          stripeDeliveries, pay, payResult, settleCalls, settledKeys, settled,
          intents, stripeCalls, intentRuns, intentResult, pollRun, ticketSchema, persisted,
          refundLog, refundRows, verify, request, conv>>

dbVars == <<users, orders, cancellations, scheduleChanges>>
whOnly == <<processedKeys, webhookEvents, whQueue, wstate, deliveries,
            applied, completed, skipped>>
pollOnly == <<tickets, orderChanges, refreshes, pollLog, pollRun>>
hookOnly == <<stripeDeliveries, pay, payResult, settleCalls, settledKeys, settled>>
intentOnly == <<intents, stripeCalls, intentRuns, intentResult>>
payOnly == <<hookOnly, intentOnly>>
ticketOnly == <<ticketSchema, persisted>>
refundOnly == <<refundLog, refundRows>>
asideOnly == <<verify, request, conv>>
notWebhook == <<duffel, pollOnly, payOnly, ticketOnly, refundOnly, asideOnly>>

\* ------------------------------------------------------------ Order rows
\* A row as prisma.order.create leaves it when only the given fields are set
\* (the other columns take their schema defaults).
OrderDefaults ==
  [userId |-> Null, offerId |-> "unknown", status |-> Null, amount |-> <<0>>,
   currency |-> "USD", owner |-> Null, liveMode |-> FALSE,
   paymentProvider |-> Null, paymentIntentId |-> Null, paymentStatus |-> Null,
   paidAt |-> FALSE, eticketReady |-> FALSE, lastEventType |-> Null]

Terminal == {"cancelled", "refunded"}

\* prisma.order.update({where: {duffelId}}): throws when the row is missing.
OrderExists(o) == o \in DOMAIN orders

\* The row set after an update of the given fields (a function field -> value).
OrderUpdated(o, data) ==
  [orders EXCEPT ![o] = [f \in DOMAIN @ |-> IF f \in DOMAIN data THEN data[f] ELSE @[f]]]

OrderInserted(o, row) ==
  [x \in DOMAIN orders \cup {o} |-> IF x = o THEN row ELSE orders[x]]

\* -------------------------------------------------------- eticket-poll queue
\* Queue.add(name, data, {jobId}) of BullMQ: with a custom jobId the add is
\* dropped when a job of that id still exists (waiting, delayed or active).
PollJobId(o) == "poll:" \o o

QueueAddWithId(q, o, att) ==
  IF \E j \in q : j.id = PollJobId(o)
    THEN q
    ELSE q \cup {[id |-> PollJobId(o), orderId |-> o, attempt |-> att, state |-> "delayed"]}

\* Queue.add without jobId: BullMQ assigns the next counter value as id.
QueueAddAuto(q, seq, o, att) ==
  q \cup {[id |-> ToString(seq + 1), orderId |-> o, attempt |-> att, state |-> "waiting"]}

Pending(o) == {j \in pollQueue : j.orderId = o /\ j.state \in {"waiting", "delayed"}}

\* ------------------------------------------------- Booking-Provider events
\* The webhook envelopes the provider may deliver (each any number of times):
\* id, type, idempotency_key and the fields of data.object the engine reads.
WebhookCatalog ==
  { [id |-> "ev1", type |-> "order.created", idem |-> "ik1", oid |-> "o1", cid |-> Null,
     status |-> "awaiting_payment", amount |-> Amt100, currency |-> "EUR",
     owner |-> "XX", live_mode |-> "false", offer_id |-> "off1"],
    [id |-> "ev2", type |-> "order.updated", idem |-> Null, oid |-> "o1", cid |-> Null,
     status |-> "confirmed", amount |-> NullAmt, currency |-> Null,
     owner |-> Null, live_mode |-> Null, offer_id |-> Null],
    [id |-> "ev3", type |-> "order.airline_initiated_change_detected", idem |-> "ik3",
     oid |-> "o1", cid |-> Null, status |-> Null, amount |-> NullAmt, currency |-> Null,
     owner |-> Null, live_mode |-> Null, offer_id |-> Null],
    [id |-> "ev4", type |-> "order_cancellation.created", idem |-> "ik4", oid |-> "o1",
     cid |-> "c1", status |-> Null, amount |-> Amt100, currency |-> "EUR",
     owner |-> Null, live_mode |-> "false", offer_id |-> Null],
    [id |-> "ev5", type |-> "order_cancellation.confirmed", idem |-> "ik5", oid |-> "o1",
     cid |-> "c1", status |-> Null, amount |-> Amt100, currency |-> "EUR",
     owner |-> Null, live_mode |-> "false", offer_id |-> Null],
    [id |-> "ev6", type |-> "ping.triggered", idem |-> Null, oid |-> Null, cid |-> Null,
     status |-> Null, amount |-> NullAmt, currency |-> Null,
     owner |-> Null, live_mode |-> Null, offer_id |-> Null],
    [id |-> "ev7", type |-> "order.created", idem |-> "ik7", oid |-> "o1", cid |-> Null,
     status |-> "confirmed", amount |-> Amt100, currency |-> "EUR",
     owner |-> "XX", live_mode |-> "false", offer_id |-> "off1"] }

\* Envelopes that share their idempotency key with ev1: ev8 also shares the
\* type (a second event of another id), ev9 is of another type; ev10 carries
\* an empty idempotency key.
TwinEvents ==
  { [id |-> "ev8", type |-> "order.created", idem |-> "ik1", oid |-> "o1", cid |-> Null,
     status |-> "awaiting_payment", amount |-> Amt100, currency |-> "EUR",
     owner |-> "XX", live_mode |-> "false", offer_id |-> "off1"],
    [id |-> "ev9", type |-> "order.updated", idem |-> "ik1", oid |-> "o1", cid |-> Null,
     status |-> "confirmed", amount |-> NullAmt, currency |-> Null,
     owner |-> Null, live_mode |-> Null, offer_id |-> Null],
    [id |-> "ev10", type |-> "order.created", idem |-> "", oid |-> "o1", cid |-> Null,
     status |-> "awaiting_payment", amount |-> Amt100, currency |-> "EUR",
     owner |-> "XX", live_mode |-> "false", offer_id |-> "off1"] }

\* An envelope of a type the processor has no case for.
UnknownEvents ==
  { [id |-> "ev11", type |-> "air.order.changed", idem |-> "ik11", oid |-> "o1",
     cid |-> Null, status |-> "confirmed", amount |-> Amt100, currency |-> "EUR",
     owner |-> "XX", live_mode |-> "false", offer_id |-> "off1"] }

EventIds == {e.id : e \in WebhookCatalog}
EventById(i) == CHOOSE e \in WebhookCatalog \cup TwinEvents \cup UnknownEvents : e.id = i

\* process(): const key = ev.idempotency_key ? `${type}|${key}` : `event|${id}`
\* (an absent and an empty key are both falsy)
LedgerKey(ev) ==
  IF ev.idem # Null /\ ev.idem # "" THEN ev.type \o "|" \o ev.idem ELSE "event|" \o ev.id

LedgerKeys == {LedgerKey(e) : e \in WebhookCatalog \cup TwinEvents \cup UnknownEvents}

\* a ledger gate that never finds the key.
LedgerHit_NoGate(key) == FALSE

\* process(): findUnique({where: {key}}) -- "if (exists) return true"
LedgerHit(key) == key \in processedKeys

NoJob == [ev |-> Null, attemptsMade |-> 0]
Idle == [pc |-> "idle", job |-> NoJob]

\* ------------------------------------------------------- Booking Provider
\* The fields of a provider order the engine reads.  exists = FALSE: the
\* provider knows no such order (GET /orders/{id} fails).
NoDuffelOrder ==
  [exists |-> FALSE, type |-> Null, awaiting |-> FALSE, paidAt |-> FALSE, status |-> Null,
   total_amount |-> NullAmt, total_currency |-> Null, docs |-> <<>>]

\* ------------------------------------------------------------------- Init
\* The Order of booking o1 may or may not have been registered by the user's
\* own booking flow before the first event arrives.
UserOrderRow ==
  [OrderDefaults EXCEPT !.userId = "u1", !.offerId = "off1", !.status = "awaiting_payment",
                        !.amount = Amt100, !.currency = "EUR",
                        !.paymentStatus = "awaiting_payment",
                        !.lastEventType = "order.created"]

NoRows == [x \in {} |-> Null]

\* No Payment-Provider notification is being handled and none has been.
PayIdle ==
  [pc |-> "idle", ev |-> Null, settle |-> "none", calls |-> <<>>,
   refunded |-> NullAmt, currency |-> Null, total |-> NullAmt, totalCur |-> Null]

NoIntentResult == [ok |-> FALSE, code |-> "none", order |-> Null]

NoPollRun == [pc |-> "idle", job |-> Null, found |-> FALSE, eDocs |-> <<>>,
              attempt |-> 0, delay |-> 0]

StripeQuiet ==
  /\ stripeDeliveries = 0
  /\ pay = PayIdle
  /\ payResult = "none"
  /\ settleCalls = {}
  /\ settledKeys = {}
  /\ settled = [p \in {"pi1", "pi2"} |-> 0]
  /\ intents = {}
  /\ stripeCalls = 0
  /\ intentRuns = 0
  /\ intentResult = NoIntentResult

NoPersist == [orderId |-> Null, docs |-> <<>>, saved |-> 0, threw |-> FALSE, again |-> FALSE]

\* Everything outside the part a specification exercises, at rest.
NoRefundOut ==
  [ok |-> FALSE, code |-> "none", threw |-> FALSE, stripe_refund_id |-> Null,
   duffel_cancellation_id |-> Null]

NoRefundLog ==
  [runs |-> 0, order |-> Null, pre |-> Null, confirm |-> Null, calls |-> <<>>,
   out |-> NoRefundOut]

NoVerify == [ran |-> FALSE, header |-> <<>>, body |-> <<>>, secret |-> <<>>, result |-> FALSE]

\* process.env of a development machine without the accept-unverified flag
DevEnv == [nodeEnv |-> "development", devAccept |-> FALSE]

NoRequest == [env |-> DevEnv, count |-> 0, event |-> Null, signature |-> Null, response |-> Null]

NoConv ==
  [ran |-> FALSE, x |-> NullAmt, y |-> NullAmt, c |-> Null, minor |-> 0, minorY |-> 0,
   back |-> NullAmt, equal |-> FALSE]

AsideQuiet ==
  /\ verify = NoVerify
  /\ conv = NoConv

TicketsQuiet ==
  /\ AsideQuiet
  /\ request = NoRequest
  /\ pollRun = NoPollRun
  /\ persisted = NoPersist
  /\ refundLog = NoRefundLog
  /\ refundRows = {}

PaymentsQuiet ==
  /\ TicketsQuiet
  /\ ticketSchema = "composite"
  /\ StripeQuiet

InitialStores ==
  { [users |-> {}, orders |-> NoRows],
    [users |-> {"u1"}, orders |-> NoRows],
    [users |-> {"u1"}, orders |-> [o \in {"o1"} |-> UserOrderRow]] }

Init ==
  /\ \E st \in InitialStores : users = st.users /\ orders = st.orders
  /\ cancellations = NoRows
  /\ scheduleChanges = EmptyBag
  /\ processedKeys = {}
  /\ webhookEvents = NoRows
  /\ whQueue = EmptyBag
  /\ wstate = [w \in Workers |-> Idle]
  /\ deliveries = 0
  /\ pollQueue = {}
  /\ pollSeq = 0
  /\ applied = [k \in LedgerKeys |-> 0]
  /\ completed = [k \in LedgerKeys |-> 0]
  /\ skipped = [k \in LedgerKeys |-> 0]
  /\ duffel = [o \in OrderIds |-> NoDuffelOrder]
  /\ tickets = {}
  /\ orderChanges = {}
  /\ refreshes = 0
  /\ pollLog = [o \in OrderIds |-> 0]
  /\ PaymentsQuiet

\* ----------------------------------------------------- webhook ingestion
\* DuffelWebhookService.enqueueAndPersist: audit insert (a duplicate primary
\* key is swallowed), then queue.add without jobId.
AuditInserted_Overwrite(ev) ==
  [i \in DOMAIN webhookEvents \cup {ev.id} |->
     IF i = ev.id THEN [processedAt |-> FALSE] ELSE webhookEvents[i]]

\* try { webhookEvent.create } catch { /* duplicate okay */ }
AuditInserted(ev) ==
  IF ev.id \in DOMAIN webhookEvents
    THEN webhookEvents
    ELSE [i \in DOMAIN webhookEvents \cup {ev.id} |->
            IF i = ev.id THEN [processedAt |-> FALSE] ELSE webhookEvents[i]]

\* queue.add("process", event) without jobId
JobAdded(ev) == whQueue (+) SetToBag({[ev |-> ev.id, attemptsMade |-> 0]})

enqueueAndPersist(ev) ==
  /\ deliveries < MaxDeliveries
  /\ deliveries' = deliveries + 1
  /\ webhookEvents' = AuditInserted(ev)
  /\ whQueue' = JobAdded(ev)
  /\ UNCHANGED <<dbVars, processedKeys, wstate, pollQueue, pollSeq,
                 applied, completed, skipped>>
  /\ UNCHANGED notWebhook

\* ------------------------------------------------------- event processor
\* A worker of the "duffel-webhooks" queue takes a waiting job.
WorkerTake(w) ==
  /\ wstate[w].pc = "idle"
  /\ \E j \in BagToSet(whQueue) :
       /\ whQueue' = whQueue (-) SetToBag({j})
       /\ wstate' = [wstate EXCEPT ![w] = [pc |-> "lookup", job |-> j]]
  /\ UNCHANGED <<dbVars, processedKeys, webhookEvents, deliveries, pollQueue, pollSeq,
                 applied, completed, skipped>>
  /\ UNCHANGED notWebhook

Ev(w) == EventById(wstate[w].job.ev)
Key(w) == LedgerKey(Ev(w))

\* process() lines 213-220: the ledger gate.
ProcLookup(w) ==
  /\ wstate[w].pc = "lookup"
  /\ IF LedgerHit(Key(w))
       THEN /\ wstate' = [wstate EXCEPT ![w] = Idle]
            /\ skipped' = [skipped EXCEPT ![Key(w)] = @ + 1]
       ELSE /\ wstate' = [wstate EXCEPT ![w].pc = "dispatch"]
            /\ UNCHANGED skipped
  /\ UNCHANGED <<dbVars, processedKeys, webhookEvents, whQueue, deliveries,
                 pollQueue, pollSeq, applied, completed>>
  /\ UNCHANGED notWebhook

\* The dispatch of the job returned: go on to "processed markieren".
DispatchReturns(w, wrote) ==
  /\ wstate' = [wstate EXCEPT ![w].pc = "mark"]
  /\ applied' = IF wrote THEN [applied EXCEPT ![Key(w)] = @ + 1] ELSE applied

\* a dispatch whose exception is swallowed: the job ends and is not retried.
DispatchThrows_Swallowed(w) ==
  /\ wstate' = [wstate EXCEPT ![w] = Idle]
  /\ whQueue' = whQueue
  /\ UNCHANGED applied

\* The dispatch threw: BullMQ fails the job and, while attempts remain,
\* moves it back to the queue.
DispatchThrows(w) ==
  /\ wstate' = [wstate EXCEPT ![w] = Idle]
  /\ whQueue' =
       IF wstate[w].job.attemptsMade + 1 < WebhookAttempts
         THEN whQueue (+) SetToBag({[wstate[w].job EXCEPT !.attemptsMade = @ + 1]})
         ELSE whQueue
  /\ UNCHANGED applied

\* ensureAnyUser: the first user, or a freshly created system user.
EnsuredUsers == IF users = {} THEN {SystemUser} ELSE users

\* an upsert whose update branch writes the whole snapshot, absent fields included.
upsertOrderMeta_Replace(ev, owners) ==
  OrderInserted(ev.oid,
    [OrderDefaults EXCEPT
       !.offerId = IF ev.offer_id # Null THEN ev.offer_id ELSE "unknown",
       !.userId = owners,
       !.status = ev.status,
       !.amount = IF ev.amount # NullAmt THEN ev.amount ELSE <<0>>,
       !.currency = IF ev.currency # Null THEN ev.currency ELSE "USD",
       !.owner = ev.owner,
       !.liveMode = (ev.live_mode = "true"),
       !.lastEventType = ev.type])

\* upsertOrderMeta: prisma.order.upsert keyed by duffelId.
upsertOrderMeta(ev, owners) ==
  IF OrderExists(ev.oid)
    THEN OrderUpdated(ev.oid,
           [f \in {"lastEventType"}
                  \cup (IF ev.status # Null THEN {"status"} ELSE {})
                  \cup (IF ev.amount # NullAmt THEN {"amount"} ELSE {})
                  \cup (IF ev.currency # Null THEN {"currency"} ELSE {})
                  \cup (IF ev.owner # Null THEN {"owner"} ELSE {})
                  \cup (IF ev.live_mode # Null THEN {"liveMode"} ELSE {}) |->
              CASE f = "lastEventType" -> ev.type
                [] f = "status" -> ev.status
                [] f = "amount" -> ev.amount
                [] f = "currency" -> ev.currency
                [] f = "owner" -> ev.owner
                [] f = "liveMode" -> (ev.live_mode = "true")])
    ELSE OrderInserted(ev.oid,
           [OrderDefaults EXCEPT
              !.offerId = IF ev.offer_id # Null THEN ev.offer_id ELSE "unknown",
              !.userId = owners,
              !.status = ev.status,
              !.amount = IF ev.amount # NullAmt THEN ev.amount ELSE <<0>>,
              !.currency = IF ev.currency # Null THEN ev.currency ELSE "USD",
              !.owner = ev.owner,
              !.liveMode = (ev.live_mode = "true"),
              !.lastEventType = ev.type])

procFrame == <<processedKeys, webhookEvents, deliveries, completed, skipped>>

\* case "order.created": upsertOrderMeta when the object carries an id.
DispatchOrderCreated(w) ==
  /\ wstate[w].pc = "dispatch"
  /\ Ev(w).type = "order.created"
  /\ IF Ev(w).oid # Null
       THEN /\ \E u \in EnsuredUsers :
                 orders' = upsertOrderMeta(Ev(w),
                             IF OrderExists(Ev(w).oid) THEN orders[Ev(w).oid].userId ELSE u)
            /\ users' = IF OrderExists(Ev(w).oid) THEN users ELSE EnsuredUsers
            /\ DispatchReturns(w, TRUE)
       ELSE /\ UNCHANGED <<users, orders>>
            /\ DispatchReturns(w, FALSE)
  /\ UNCHANGED <<cancellations, scheduleChanges, whQueue, pollQueue, pollSeq, procFrame>>
  /\ UNCHANGED notWebhook

\* case "order.updated": upsertOrderMeta, then a poll when the snapshot's
\* status is confirmed or ticketed.
DispatchOrderUpdated(w) ==
  /\ wstate[w].pc = "dispatch"
  /\ Ev(w).type = "order.updated"
  /\ IF Ev(w).oid # Null
       THEN /\ \E u \in EnsuredUsers :
                 orders' = upsertOrderMeta(Ev(w),
                             IF OrderExists(Ev(w).oid) THEN orders[Ev(w).oid].userId ELSE u)
            /\ users' = IF OrderExists(Ev(w).oid) THEN users ELSE EnsuredUsers
            /\ pollQueue' = IF Ev(w).status \in {"confirmed", "ticketed"}
                              THEN QueueAddWithId(pollQueue, Ev(w).oid, 1)
                              ELSE pollQueue
            /\ DispatchReturns(w, TRUE)
       ELSE /\ UNCHANGED <<users, orders, pollQueue>>
            /\ DispatchReturns(w, FALSE)
  /\ UNCHANGED <<cancellations, scheduleChanges, whQueue, pollSeq, procFrame>>
  /\ UNCHANGED notWebhook

\* case "order.airline_initiated_change_detected": persistAirlineChange
\* (orderScheduleChange.create needs the local order row) and status "changed".
DispatchAirlineChange(w) ==
  /\ wstate[w].pc = "dispatch"
  /\ Ev(w).type = "order.airline_initiated_change_detected"
  /\ IF Ev(w).oid = Null
       THEN /\ UNCHANGED <<orders, scheduleChanges, whQueue>>
            /\ DispatchReturns(w, FALSE)
       ELSE IF OrderExists(Ev(w).oid)
         THEN /\ scheduleChanges' = scheduleChanges (+) SetToBag({[orderId |-> Ev(w).oid]})
              /\ orders' = OrderUpdated(Ev(w).oid, [f \in {"status"} |-> "changed"])
              /\ UNCHANGED whQueue
              /\ DispatchReturns(w, TRUE)
         ELSE /\ UNCHANGED <<orders, scheduleChanges>>
              /\ DispatchThrows(w)
  /\ UNCHANGED <<users, cancellations, pollQueue, pollSeq, procFrame>>
  /\ UNCHANGED notWebhook

\* markCancellation("created", data): upsert of the Cancellation mirror; its
\* orderDuffelId is a foreign key to Order.duffelId.
CancellationRow(ev, confirmedAt) ==
  [orderDuffelId |-> ev.oid, refundAmount |-> ev.amount, refundCurrency |-> ev.currency,
   liveMode |-> (ev.live_mode = "true"), confirmedAt |-> confirmedAt]

DispatchCancellationCreated(w) ==
  /\ wstate[w].pc = "dispatch"
  /\ Ev(w).type = "order_cancellation.created"
  /\ IF Ev(w).cid = Null
       THEN /\ UNCHANGED <<cancellations, whQueue>>
            /\ DispatchReturns(w, FALSE)
       ELSE IF Ev(w).cid \in DOMAIN cancellations
         THEN /\ cancellations' =
                   [cancellations EXCEPT ![Ev(w).cid] =
                      [CancellationRow(Ev(w), @.confirmedAt) EXCEPT !.orderDuffelId =
                         cancellations[Ev(w).cid].orderDuffelId]]
              /\ UNCHANGED whQueue
              /\ DispatchReturns(w, TRUE)
         ELSE IF OrderExists(Ev(w).oid)
           THEN /\ cancellations' =
                     [c \in DOMAIN cancellations \cup {Ev(w).cid} |->
                        IF c = Ev(w).cid THEN CancellationRow(Ev(w), FALSE)
                                         ELSE cancellations[c]]
                /\ UNCHANGED whQueue
                /\ DispatchReturns(w, TRUE)
           ELSE /\ UNCHANGED cancellations
                /\ DispatchThrows(w)
  /\ UNCHANGED <<users, orders, scheduleChanges, pollQueue, pollSeq, procFrame>>
  /\ UNCHANGED notWebhook

\* markCancellation("confirmed", data): both updates are best-effort (.catch).
DispatchCancellationConfirmed(w) ==
  /\ wstate[w].pc = "dispatch"
  /\ Ev(w).type = "order_cancellation.confirmed"
  /\ IF Ev(w).cid = Null
       THEN /\ UNCHANGED <<cancellations, orders>>
            /\ DispatchReturns(w, FALSE)
       ELSE /\ cancellations' =
                 IF Ev(w).cid \in DOMAIN cancellations
                   THEN [cancellations EXCEPT ![Ev(w).cid].confirmedAt = TRUE]
                   ELSE cancellations
            /\ orders' =
                 IF OrderExists(Ev(w).oid)
                   THEN OrderUpdated(Ev(w).oid,
                          [f \in {"status", "paymentStatus"} |-> "cancelled"])
                   ELSE orders
            /\ DispatchReturns(w, Ev(w).cid \in DOMAIN cancellations \/ OrderExists(Ev(w).oid))
  /\ UNCHANGED <<users, scheduleChanges, whQueue, pollQueue, pollSeq, procFrame>>
  /\ UNCHANGED notWebhook

\* case "ping.triggered" and default: nothing is written.
DispatchNoop(w) ==
  /\ wstate[w].pc = "dispatch"
  /\ Ev(w).type \notin {"order.created", "order.updated",
                        "order.airline_initiated_change_detected",
                        "order_cancellation.created", "order_cancellation.confirmed"}
  /\ DispatchReturns(w, FALSE)
  /\ UNCHANGED <<dbVars, whQueue, pollQueue, pollSeq, procFrame>>
  /\ UNCHANGED notWebhook

\* processedKey.create({data: {key}}).catch(() => {}): a unique violation
\* (the key was recorded meanwhile by another run) is swallowed.
ProcMark(w) ==
  /\ wstate[w].pc = "mark"
  /\ processedKeys' = processedKeys \cup {Key(w)}
  /\ wstate' = [wstate EXCEPT ![w].pc = "stamp"]
  /\ UNCHANGED <<dbVars, webhookEvents, whQueue, deliveries, pollQueue, pollSeq,
                 applied, completed, skipped>>
  /\ UNCHANGED notWebhook

\* a run that completes without stamping its audit row.
ProcStamp_Unstamped(w) ==
  /\ wstate[w].pc = "stamp"
  /\ completed' = [completed EXCEPT ![Key(w)] = @ + 1]
  /\ wstate' = [wstate EXCEPT ![w] = Idle]
  /\ UNCHANGED <<dbVars, processedKeys, webhookEvents, whQueue, deliveries, pollQueue,
                 pollSeq, applied, skipped>>
  /\ UNCHANGED notWebhook

\* webhookEvent.update({where: {id}, data: {processedAt}}).catch(() => {}),
\* then "return true": the job completes.
ProcStamp(w) ==
  /\ wstate[w].pc = "stamp"
  /\ webhookEvents' =
       IF Ev(w).id \in DOMAIN webhookEvents
         THEN [webhookEvents EXCEPT ![Ev(w).id].processedAt = TRUE]
         ELSE webhookEvents
  /\ completed' = [completed EXCEPT ![Key(w)] = @ + 1]
  /\ wstate' = [wstate EXCEPT ![w] = Idle]
  /\ UNCHANGED <<dbVars, processedKeys, whQueue, deliveries, pollQueue, pollSeq,
                 applied, skipped>>
  /\ UNCHANGED notWebhook

Next ==
  \/ \E ev \in WebhookCatalog : enqueueAndPersist(ev)
  \/ \E w \in Workers : WorkerTake(w)
  \/ \E w \in Workers : ProcLookup(w)
  \/ \E w \in Workers : DispatchOrderCreated(w)
  \/ \E w \in Workers : DispatchOrderUpdated(w)
  \/ \E w \in Workers : DispatchAirlineChange(w)
  \/ \E w \in Workers : DispatchCancellationCreated(w)
  \/ \E w \in Workers : DispatchCancellationConfirmed(w)
  \/ \E w \in Workers : DispatchNoop(w)
  \/ \E w \in Workers : ProcMark(w)
  \/ \E w \in Workers : ProcStamp(w)

Spec == Init /\ [][Next]_vars

\* ======================================================= event processor
\* C1: for every (event type, idempotency key) pair the business effect of
\* DuffelWebhookProcessor.process is applied at most once, also when two jobs
\* carrying the same event are run concurrently by different workers.
AtMostOnceApplication == \A k \in LedgerKeys : applied[k] <= 1

\* C2: once an event has been processed to completion, processing the same
\* event again returns at the ledger gate: nothing is written to Order,
\* Cancellation or schedule-change records and no poll job is enqueued.
SecondRunIsNoop ==
  [][\A w \in Workers :
       (wstate[w].pc = "lookup" /\ completed[Key(w)] >= 1 /\ wstate'[w] # wstate[w])
         => /\ wstate'[w] = Idle
            /\ skipped'[Key(w)] = skipped[Key(w)] + 1
            /\ UNCHANGED <<users, orders, cancellations, scheduleChanges,
                           pollQueue, pollSeq, applied>>]_vars

\* A completed run of an event was followed by a run that was skipped, and
\* the effect was applied once.
SecondRunSkipped ==
  \E k \in LedgerKeys : completed[k] >= 1 /\ skipped[k] >= 1 /\ applied[k] = 1

\* C10: cancelled and refunded are terminal: once an Order's status is
\* cancelled or refunded no later operation sets it to a non-terminal value.
TerminalStatusIsFinal ==
  [][\A o \in DOMAIN orders :
       orders[o].status \in Terminal
         => (o \in DOMAIN orders' /\ orders'[o].status \in Terminal)]_vars



\* ======================================================= ticket fulfilment
\* Document lists the provider may attach to an order once tickets are
\* issued (test-mode orders carry the constant unique_identifier "1").
ETicket(uid) ==
  [type |-> "electronic_ticket", uid |-> uid,
   url |-> IF uid = Null THEN "url" ELSE "url" \o uid]

DocLists ==
  { <<ETicket("1")>>,
    <<ETicket("1"), ETicket("2")>>,
    <<[type |-> "invoice", uid |-> "9", url |-> Null], ETicket(Null)>> }

\* String(d?.type ?? "").toLowerCase()
LowerType(t) == IF t = "Electronic_Ticket" THEN "electronic_ticket" ELSE t

\* persistTicketDocuments: list.filter(type === "electronic_ticket")
EDocs(docs) == SelectSeq(docs, LAMBDA d : LowerType(d.type) = "electronic_ticket")

\* uniqueIdRaw = d.unique_identifier ? String(...) : `${duffelOrderId}:${i + 1}`
UniqueIdRaw(o, d, i) == IF d.uid # Null THEN d.uid ELSE o \o ":" \o ToString(i)

\* What the database enforces on TicketDocument: the composite unique index
\* (orderId, uniqueId) of the current schema; no such index (the upsert fails
\* with 42P10); no such index but a global unique index on uniqueId.
TicketSchemas == {"composite", "synthetic", "legacy"}

\* dbOrder.id, the primary key of the Order row of booking o
OrderDbId(o) == "id_" \o o

\* the primary key prisma generates for a created row
Cuid(o, uid) == "cuid_" \o o \o ":" \o uid

\* syntheticId = `${dbOrder.id}:${uniqueIdRaw}`
SyntheticId(o, raw) == OrderDbId(o) \o ":" \o raw

\* namespacedUniqueId = `${duffelOrderId}:${uniqueIdRaw}`
Namespaced(o, raw) == o \o ":" \o raw

\* The composite upsert replaced by a plain create.
ByComposite_Create(tk, o, raw, d) ==
  tk \cup {[id |-> Cuid(o, raw) \o "#" \o ToString(Cardinality(tk)), orderId |-> o,
            uniqueId |-> raw, type |-> d.type, url |-> d.url]}

\* upsert({where: {orderId_uniqueId}}): update type and url, or create.
ByComposite(tk, o, raw, d) ==
  IF \E t \in tk : t.orderId = o /\ t.uniqueId = raw
    THEN {IF t.orderId = o /\ t.uniqueId = raw
            THEN [t EXCEPT !.type = d.type, !.url = d.url] ELSE t : t \in tk}
    ELSE tk \cup {[id |-> Cuid(o, raw), orderId |-> o, uniqueId |-> raw,
                   type |-> d.type, url |-> d.url]}

\* upsert({where: {id}}): update type, url and uniqueId, or create.
ById(tk, id, o, uid, d) ==
  IF \E t \in tk : t.id = id
    THEN {IF t.id = id THEN [t EXCEPT !.type = d.type, !.url = d.url, !.uniqueId = uid]
                      ELSE t : t \in tk}
    ELSE tk \cup {[id |-> id, orderId |-> o, uniqueId |-> uid, type |-> d.type, url |-> d.url]}

\* the global unique index on uniqueId refuses the value (P2002)
UniqueIdTaken(tk, id, uid) == \E t \in tk : t.id # id /\ t.uniqueId = uid

\* The upserts of one loop iteration throw: only the last fallback can.
TicketThrows(tk, o, d, i) ==
  /\ ticketSchema = "legacy"
  /\ UniqueIdTaken(tk, SyntheticId(o, UniqueIdRaw(o, d, i)), UniqueIdRaw(o, d, i))
  /\ UniqueIdTaken(tk, SyntheticId(o, UniqueIdRaw(o, d, i)),
                   Namespaced(o, UniqueIdRaw(o, d, i)))

\* One loop iteration: the composite upsert, on 42P10 the upsert by the
\* synthetic primary key, on P2002 the same with the namespaced uniqueId.
TicketUpserted(tk, o, d, i) ==
  LET raw == UniqueIdRaw(o, d, i)
      syn == SyntheticId(o, raw)
  IN CASE ticketSchema = "composite" -> ByComposite(tk, o, raw, d)
       [] ticketSchema = "synthetic" -> ById(tk, syn, o, raw, d)
       [] OTHER ->
            IF ~UniqueIdTaken(tk, syn, raw) THEN ById(tk, syn, o, raw, d)
            ELSE IF ~UniqueIdTaken(tk, syn, Namespaced(o, raw))
              THEN ById(tk, syn, o, Namespaced(o, raw), d)
            ELSE tk

\* The for-loop of persistTicketDocuments over eDocs[i ..]: the rows it
\* leaves (an exception ends the loop) and whether it ended by an exception.
\* a loop that stores no row
PersistLoop_Nothing(tk, o, eDocs, i) == tk

RECURSIVE PersistLoop(_, _, _, _)
PersistLoop(tk, o, eDocs, i) ==
  IF i > Len(eDocs) \/ TicketThrows(tk, o, eDocs[i], i) THEN tk
  ELSE PersistLoop(TicketUpserted(tk, o, eDocs[i], i), o, eDocs, i + 1)

RECURSIVE PersistThrows(_, _, _, _)
PersistThrows(tk, o, eDocs, i) ==
  IF i > Len(eDocs) THEN FALSE
  ELSE IF TicketThrows(tk, o, eDocs[i], i) THEN TRUE
  ELSE PersistThrows(TicketUpserted(tk, o, eDocs[i], i), o, eDocs, i + 1)

\* persistTicketDocuments, lines 180-208: the order row the documents hang on
\* (created with a placeholder owner when missing).
OrdersWithRow(o, u) ==
  IF OrderExists(o) THEN orders
  ELSE OrderInserted(o, [OrderDefaults EXCEPT !.userId = u])

\* persistTicketDocuments lines 295-300 followed by markEticketReady(orderId,
\* order?.status ?? "confirmed") of the poller.
MarkedReady(ords, o, providerStatus) ==
  [ords EXCEPT ![o].eticketReady = TRUE,
               ![o].status = IF providerStatus # Null THEN providerStatus ELSE "confirmed"]

\* Number(digits), leading zeros carrying no value
RECURSIVE SeqToNat(_)
SeqToNat(s) ==
  IF s = <<>> THEN 0 ELSE 10 * SeqToNat(SubSeq(s, 1, Len(s) - 1)) + s[Len(s)]

\* String(n) for a natural n
RECURSIVE NatToSeq(_)
NatToSeq(n) == IF n < 10 THEN <<n>> ELSE NatToSeq(n \div 10) \o <<n % 10>>

\* The decimal digits of s * k + carry for a digit string s and a small k
\* (numbers beyond the machine integer are kept as digit strings).
RECURSIVE TimesSmall(_, _, _)
TimesSmall(s, k, carry) ==
  IF s = <<>>
    THEN IF carry = 0 THEN <<>> ELSE NatToSeq(carry)
    ELSE LET v == s[Len(s)] * k + carry
         IN TimesSmall(SubSeq(s, 1, Len(s) - 1), k, v \div 10) \o <<v % 10>>

\* Math.pow(1.6, n) as the decimal 16^n / 10^n: the digits of 16^n, the last
\* n of them behind the decimal point.
RECURSIVE Pow16(_)
Pow16(n) == IF n = 0 THEN <<1>> ELSE TimesSmall(Pow16(n - 1), 16, 0)

MaxDelay == 60000

\* The delay with the fraction cut off instead of rounded
RequeueDelay_Floor(attempt) ==
  LET n == attempt - 1
      x == TimesSmall(Pow16(n), 5000, 0)
      whole == SubSeq(x, 1, Len(x) - n)
  IN IF Len(whole) > 5 THEN MaxDelay
     ELSE IF SeqToNat(whole) > MaxDelay THEN MaxDelay ELSE SeqToNat(whole)

\* EticketPollProcessor.process lines 245-248:
\* Math.min(60_000, Math.round(5000 * Math.pow(1.6, attempt - 1))).
\* Math.round rounds a half upwards; a value of more than five integer digits
\* is above the cap.
RequeueDelay(attempt) ==
  LET n == attempt - 1
      x == TimesSmall(Pow16(n), 5000, 0)
      whole == SubSeq(x, 1, Len(x) - n)
      rounded == SeqToNat(whole) + (IF n > 0 /\ x[Len(x) - n + 1] >= 5 THEN 1 ELSE 0)
  IN IF Len(whole) > 5 THEN MaxDelay
     ELSE IF rounded > MaxDelay THEN MaxDelay ELSE rounded

\* EticketPollProcessor.process lines 250-259: job.queue.add("poll",
\* {orderId, attempt + 1}, {jobId: `poll:${orderId}`, ...}) -- issued while
\* job j itself still exists in the queue.
RequeueSameId(q, j) == QueueAddWithId(q, j.orderId, j.attempt + 1)

\* The options of that add call as the run leaves them: the attempt that
\* requeued and the delay it asked for (unchanged when the run stores
\* documents or gives up).
Requeued(j, fetched) ==
  IF /\ (IF fetched THEN EDocs(duffel[j.orderId].docs) ELSE <<>>) = <<>>
     /\ j.attempt < MaxAttempts
    THEN [pollRun EXCEPT !.attempt = j.attempt, !.delay = RequeueDelay(j.attempt)]
    ELSE pollRun

whAndCalm == <<whOnly, cancellations, scheduleChanges, payOnly, ticketOnly, refundOnly,
               asideOnly>>

\* A worker of "eticket-poll" takes a waiting or due delayed job.
PollTake(j) ==
  /\ j \in pollQueue
  /\ j.state \in {"waiting", "delayed"}
  /\ pollQueue' = (pollQueue \ {j}) \cup {[j EXCEPT !.state = "active"]}
  /\ UNCHANGED <<whAndCalm, users, orders, pollSeq, duffel, pollOnly>>

\* EticketPollProcessor.process for the active job j; fetched = FALSE is a
\* failed GET /orders/{id} (logged, documents taken as []).
PollProcess(j, fetched) ==
  /\ j \in pollQueue
  /\ j.state = "active"
  /\ fetched => duffel[j.orderId].exists
  /\ pollLog' = [pollLog EXCEPT ![j.orderId] = j.attempt]
  /\ LET o == j.orderId
         eDocs == IF fetched THEN EDocs(duffel[o].docs) ELSE <<>>
     IN IF Len(eDocs) > 0
          THEN /\ \E u \in EnsuredUsers :
                    orders' = MarkedReady(OrdersWithRow(o, u), o, duffel[o].status)
               /\ users' = IF OrderExists(o) THEN users ELSE EnsuredUsers
               /\ tickets' = PersistLoop(tickets, o, eDocs, 1)
               /\ pollQueue' = pollQueue \ {j}
          ELSE /\ UNCHANGED <<users, orders, tickets>>
               /\ pollQueue' =
                    IF j.attempt >= MaxAttempts
                      THEN pollQueue \ {j}
                      ELSE RequeueSameId(pollQueue, j) \ {j}
  /\ pollRun' = Requeued(j, fetched)
  /\ UNCHANGED <<whAndCalm, pollSeq, duffel, orderChanges, refreshes>>

\* OrdersController.refresh: queue.add("poll", {orderId}) without jobId and
\* without attempt (the poller reads a missing attempt as 1).
refresh(o) ==
  /\ refreshes < MaxRefresh
  /\ refreshes' = refreshes + 1
  /\ pollQueue' = QueueAddAuto(pollQueue, pollSeq, o, 1)
  /\ pollSeq' = pollSeq + 1
  /\ UNCHANGED <<whAndCalm, users, orders, duffel, tickets, orderChanges, pollLog, pollRun>>

\* The provider issues the tickets of an order.
DuffelIssuesTickets(o) ==
  /\ duffel[o].exists
  /\ duffel[o].docs = <<>>
  /\ \E dl \in DocLists : duffel' = [duffel EXCEPT ![o].docs = dl]
  /\ UNCHANGED <<whAndCalm, users, orders, pollQueue, pollSeq, pollOnly>>

\* Orders as POST /orders of the provider may return them: an instant order
\* (paid at creation, tickets possibly attached at once) or a hold order.
NewDuffelOrders ==
  { [NoDuffelOrder EXCEPT !.exists = TRUE, !.type = "instant", !.paidAt = TRUE,
                          !.total_amount = Amt100, !.total_currency = "EUR"],
    [NoDuffelOrder EXCEPT !.exists = TRUE, !.type = "instant", !.paidAt = TRUE,
                          !.total_amount = Amt100, !.total_currency = "EUR",
                          !.docs = <<ETicket("1")>>],
    [NoDuffelOrder EXCEPT !.exists = TRUE, !.type = "hold", !.awaiting = TRUE,
                          !.total_amount = Amt100, !.total_currency = "EUR"] }

\* OrdersService.resolveStatusFromDuffel
resolveStatusFromDuffel(d) ==
  IF d.status # Null THEN d.status
  ELSE IF Len(EDocs(d.docs)) > 0 THEN "confirmed"
  ELSE IF d.awaiting THEN "awaiting_payment"
  ELSE Null

\* OrdersService.create, dbData (lines 360-392) as written by the upsert.
CreatedRow(old, d, user) ==
  [old EXCEPT !.userId = user, !.offerId = "off1",
              !.status = resolveStatusFromDuffel(d),
              !.amount = IF d.total_amount # NullAmt THEN d.total_amount ELSE <<0>>,
              !.currency = IF d.total_currency # Null THEN d.total_currency ELSE "USD",
              !.owner = Null, !.liveMode = FALSE,
              !.paymentStatus = IF d.awaiting THEN "awaiting_payment"
                                ELSE IF d.paidAt THEN "succeeded" ELSE Null,
              !.paidAt = d.paidAt,
              !.lastEventType = "order.created"]

\* OrdersService.create for user u1: the provider books the order, the engine
\* upserts it, stores documents already delivered and enqueues a poll.
OrdersCreate(o, d) ==
  /\ ~duffel[o].exists
  /\ "u1" \in users
  /\ duffel' = [duffel EXCEPT ![o] = d]
  /\ LET row == CreatedRow(IF OrderExists(o) THEN orders[o] ELSE OrderDefaults, d, "u1")
         upserted == OrderInserted(o, row)
     IN IF Len(EDocs(d.docs)) > 0
          THEN /\ tickets' = PersistLoop(tickets, o, EDocs(d.docs), 1)
               /\ orders' = [upserted EXCEPT ![o].status = "confirmed",
                                             ![o].eticketReady = TRUE]
          ELSE /\ tickets' = tickets
               /\ orders' = upserted
  /\ pollQueue' = QueueAddWithId(pollQueue, o, 1)
  /\ UNCHANGED <<whAndCalm, users, pollSeq, orderChanges, refreshes, pollLog, pollRun>>

\* OrdersService.confirmOrderChange once POST /order_changes has succeeded:
\* OrderChange upsert, best-effort status update, poll.
confirmOrderChange(o) ==
  /\ duffel[o].exists
  /\ orderChanges' = orderChanges \cup {[duffelChangeId |-> "chg:" \o o, orderDuffelId |-> o]}
  /\ orders' = IF OrderExists(o)
                 THEN OrderUpdated(o, [f \in {"status", "lastEventType"} |->
                        IF f = "status" THEN "confirmed" ELSE "order.changed"])
                 ELSE orders
  /\ pollQueue' = QueueAddWithId(pollQueue, o, 1)
  /\ UNCHANGED <<whAndCalm, users, pollSeq, duffel, tickets, refreshes, pollLog, pollRun>>

\* User u1 exists; booking o2 was made at the provider outside the engine.
InitPoll ==
  /\ users = {"u1"}
  /\ orders = NoRows
  /\ cancellations = NoRows
  /\ scheduleChanges = EmptyBag
  /\ processedKeys = {}
  /\ webhookEvents = NoRows
  /\ whQueue = EmptyBag
  /\ wstate = [w \in Workers |-> Idle]
  /\ deliveries = 0
  /\ pollQueue = {}
  /\ pollSeq = 0
  /\ applied = [k \in LedgerKeys |-> 0]
  /\ completed = [k \in LedgerKeys |-> 0]
  /\ skipped = [k \in LedgerKeys |-> 0]
  /\ duffel = [o \in OrderIds |->
                 IF o = "o2"
                   THEN [NoDuffelOrder EXCEPT !.exists = TRUE, !.type = "instant",
                           !.paidAt = TRUE, !.total_amount = Amt100, !.total_currency = "EUR"]
                   ELSE NoDuffelOrder]
  /\ tickets = {}
  /\ orderChanges = {}
  /\ refreshes = 0
  /\ pollLog = [o \in OrderIds |-> 0]
  /\ PaymentsQuiet

NextPoll ==
  \/ \E o \in OrderIds, d \in NewDuffelOrders : OrdersCreate(o, d)
  \/ \E o \in OrderIds : refresh(o)
  \/ \E o \in OrderIds : confirmOrderChange(o)
  \/ \E o \in OrderIds : DuffelIssuesTickets(o)
  \/ \E j \in pollQueue : PollTake(j)
  \/ \E j \in pollQueue, fetched \in BOOLEAN : PollProcess(j, fetched)

SpecPoll == InitPoll /\ [][NextPoll]_vars

\* C3: a poll chain started at attempt 1 that sees no electronic-ticket
\* document on attempts 1..14 reaches attempt 15; it ends, after at most 15
\* attempts, with the documents persisted once and eticketReady = true.
\* Stated on the ended chain (a poll ran for o, no poll job of o is left):
\* the chain ended with the tickets stored or it used up its 15 attempts.
PollChainReachesTickets ==
  \A o \in OrderIds :
    (pollLog[o] > 0 /\ ~\E j \in pollQueue : j.orderId = o)
      => /\ pollLog[o] <= MaxAttempts
         /\ \/ pollLog[o] = MaxAttempts
            \/ /\ OrderExists(o) /\ orders[o].eticketReady
               /\ {t \in tickets : t.orderId = o}
                    = PersistLoop({}, o, EDocs(duffel[o].docs), 1)

\* C4: the eticket-poll queue holds at most one pending (waiting or delayed)
\* poll job per order, whichever enqueue sites fire and in whatever order.
OnePendingPollPerOrder == \A o \in OrderIds : Cardinality(Pending(o)) <= 1

\* =====================================================================
\* Payments: currency codec, charge intents, Payment-Provider webhook
\* =====================================================================

\* ----------------------------------------------------------- currency codec
\* Amount strings are sequences over the digits 0..9 and DOT; minor units
\* are naturals.  String.toUpperCase / toLowerCase on the currency codes used.
Upper(c) ==
  CASE c = "eur" -> "EUR" [] c = "usd" -> "USD" [] c = "jpy" -> "JPY" [] OTHER -> c

Lower(c) ==
  CASE c = "EUR" -> "eur" [] c = "USD" -> "usd" [] c = "JPY" -> "jpy" [] OTHER -> c

\* EXPONENT_MAP[code] ?? 2
Exponent(code) ==
  CASE code \in {"JPY", "KRW", "VND", "XOF", "XAF", "XPF", "CLP"} -> 0
    [] code = "MGA" -> 1
    [] code \in {"BHD", "JOD", "KWD", "OMR", "TND", "IQD"} -> 3
    [] OTHER -> 2

\* /^\d+(\.\d+)?$/
ValidAmount(s) ==
  LET dots == {i \in 1..Len(s) : s[i] = DOT}
  IN /\ Len(s) > 0
     /\ \A i \in 1..Len(s) : s[i] \in 0..DOT
     /\ Cardinality(dots) <= 1
     /\ \A i \in dots : 1 < i /\ i < Len(s)

InvalidAmount == -1     \* toMinorUnits throws

Zeros(n) == [i \in 1..n |-> 0]

\* toMinorUnits without the zero padding of the fraction
toMinorUnits_NoPad(amount, currency) ==
  IF ~ValidAmount(amount) THEN InvalidAmount
  ELSE LET exp == Exponent(Upper(currency))
           dots == {i \in 1..Len(amount) : amount[i] = DOT}
           dot == IF dots = {} THEN Len(amount) + 1 ELSE CHOOSE i \in dots : TRUE
           intPart == SubSeq(amount, 1, dot - 1)
           fracRaw == SubSeq(amount, dot + 1, Len(amount))
           frac == SubSeq(fracRaw, 1, IF Len(fracRaw) < exp THEN Len(fracRaw) ELSE exp)
           normalized == IF exp > 0 THEN intPart \o frac ELSE intPart
       IN SeqToNat(normalized)

\* toMinorUnits rounding on the first digit beyond the exponent
toMinorUnits_Rounding(amount, currency) ==
  IF ~ValidAmount(amount) THEN InvalidAmount
  ELSE LET exp == Exponent(Upper(currency))
           dots == {i \in 1..Len(amount) : amount[i] = DOT}
           dot == IF dots = {} THEN Len(amount) + 1 ELSE CHOOSE i \in dots : TRUE
           intPart == SubSeq(amount, 1, dot - 1)
           fracRaw == SubSeq(amount, dot + 1, Len(amount))
           frac == SubSeq(fracRaw \o Zeros(exp), 1, exp)
           normalized == IF exp > 0 THEN intPart \o frac ELSE intPart
       IN SeqToNat(normalized)
            + (IF Len(fracRaw) > exp /\ fracRaw[exp + 1] >= 5 THEN 1 ELSE 0)

toMinorUnits(amount, currency) ==
  IF ~ValidAmount(amount) THEN InvalidAmount
  ELSE LET exp == Exponent(Upper(currency))
           dots == {i \in 1..Len(amount) : amount[i] = DOT}
           dot == IF dots = {} THEN Len(amount) + 1 ELSE CHOOSE i \in dots : TRUE
           intPart == SubSeq(amount, 1, dot - 1)
           fracRaw == SubSeq(amount, dot + 1, Len(amount))
           frac == SubSeq(fracRaw \o Zeros(exp), 1, exp)
           normalized == IF exp > 0 THEN intPart \o frac ELSE intPart
       IN SeqToNat(normalized)

\* s.replace(/^0+(\d)/, "$1")
RECURSIVE StripLeadingZeros(_)
StripLeadingZeros(s) ==
  IF Len(s) >= 2 /\ s[1] = 0 /\ s[2] \in 0..9 THEN StripLeadingZeros(Tail(s)) ELSE s

PadStart(s, n) == IF Len(s) >= n THEN s ELSE Zeros(n - Len(s)) \o s

\* fromMinorUnits that ignores the exponent of the currency
fromMinorUnits_NoExponent(minor, currency) == NatToSeq(minor)

fromMinorUnits(minor, currency) ==
  LET exp == Exponent(Upper(currency))
  IN IF exp = 0 THEN NatToSeq(minor)
     ELSE LET s == PadStart(NatToSeq(minor), exp + 1)
              i == SubSeq(s, 1, Len(s) - exp)
              f == SubSeq(s, Len(s) - exp + 1, Len(s))
          IN StripLeadingZeros(i \o <<DOT>> \o f)

\* -------------------------------------------------------- Payment Provider
\* The payment intents the Payment Provider holds; pi2 was created without
\* order metadata.
PaymentIntents ==
  [p \in {"pi1", "pi2"} |->
     IF p = "pi1"
       THEN [id |-> "pi1", order |-> "o1", amount |-> 10000, currency |-> "eur"]
       ELSE [id |-> "pi2", order |-> Null, amount |-> 4000, currency |-> "eur"]]

\* Notifications of the Payment Provider (signature already verified).
StripeCatalog ==
  { [id |-> "se1", type |-> "payment_intent.succeeded", pi |-> "pi1",
     amount_refunded |-> 0, currency |-> "eur"],
    [id |-> "se2", type |-> "payment_intent.succeeded", pi |-> "pi2",
     amount_refunded |-> 0, currency |-> "eur"],
    [id |-> "se3", type |-> "payment_intent.payment_failed", pi |-> "pi1",
     amount_refunded |-> 0, currency |-> "eur"],
    [id |-> "se4", type |-> "charge.refunded", pi |-> "pi1",
     amount_refunded |-> 10000, currency |-> "eur"],
    [id |-> "se5", type |-> "charge.refunded", pi |-> "pi1",
     amount_refunded |-> 4000, currency |-> "eur"],
    [id |-> "se6", type |-> "customer.created", pi |-> Null,
     amount_refunded |-> 0, currency |-> Null],
    [id |-> "se7", type |-> "refund.updated", pi |-> "pi1",
     amount_refunded |-> 10000, currency |-> "eur"] }

RefundTypes == {"charge.refunded", "refund.updated"}

StripeEventById(i) == CHOOSE e \in StripeCatalog : e.id = i
PayEv == StripeEventById(pay.ev)
PayIntent == PaymentIntents[PayEv.pi]
PayOrder == PayIntent.order

\* ------------------------------------------------- createIntentForOrder
\* !order?.total_amount || !order?.total_currency
NoTotals(d) == d.total_amount \in {NullAmt, <<>>} \/ d.total_currency = Null

\* String(order?.type || "").toLowerCase() === "instant"
IsInstant(d) == d.type \in {"instant", "Instant", "INSTANT"}

IntentAllowed_TypeBlind(d) == d.awaiting /\ ~d.paidAt

\* the negation of "!awaiting || alreadyPaid || isInstant"
IntentAllowed(d) == d.awaiting /\ ~d.paidAt /\ ~IsInstant(d)

resultFail(code, o) == [ok |-> FALSE, code |-> code, order |-> o]
resultOk(o) == [ok |-> TRUE, code |-> "ok", order |-> o]

\* The intent paymentIntents.create is asked for; the idempotency key is the
\* hash of order id, total amount and total currency.
IntentFor(o, d) ==
  [amount |-> toMinorUnits(d.total_amount, d.total_currency),
   currency |-> Lower(d.total_currency),
   order |-> o,
   idempotencyKey |-> <<o, d.total_amount, d.total_currency>>]

\* PaymentsService.createIntentForOrder(o).  fetched = FALSE: getOrder throws
\* (the exception leaves the method); created = FALSE: paymentIntents.create
\* throws.
createIntentForOrder(o, fetched, created) ==
  /\ intentRuns < MaxIntentRuns
  /\ fetched => duffel[o].exists
  /\ intentRuns' = intentRuns + 1
  /\ LET d == duffel[o]
     IN IF ~fetched
          THEN /\ intentResult' = [ok |-> FALSE, code |-> "threw", order |-> o]
               /\ UNCHANGED <<intents, stripeCalls>>
        ELSE IF NoTotals(d)
          THEN /\ intentResult' = resultFail("order_not_found", o)
               /\ UNCHANGED <<intents, stripeCalls>>
        ELSE IF ~IntentAllowed(d)
          THEN /\ intentResult' = resultFail("already_paid_or_instant", o)
               /\ UNCHANGED <<intents, stripeCalls>>
        ELSE IF toMinorUnits(d.total_amount, d.total_currency) = InvalidAmount
          THEN /\ intentResult' = resultFail("invalid_totals", o)
               /\ UNCHANGED <<intents, stripeCalls>>
        ELSE /\ stripeCalls' = stripeCalls + 1
             /\ IF created
                  THEN /\ intents' = intents \cup {IntentFor(o, d)}
                       /\ intentResult' = resultOk(o)
                  ELSE /\ intents' = intents
                       /\ intentResult' = resultFail("stripe_pi_create_failed", o)
  /\ UNCHANGED <<dbVars, whOnly, pollQueue, pollSeq, duffel, pollOnly, hookOnly, ticketOnly, refundOnly,
                 asideOnly>>

\* ---------------------------------------------- handleWebhook (Stripe)
\* prisma.order.update({where: {duffelId: o}, data}) inside try/catch: a
\* missing row or a paymentIntentId held by another row (unique index)
\* throws, and the handler only logs it.
TakenElsewhere(o, data) ==
  /\ "paymentIntentId" \in DOMAIN data
  /\ \E x \in DOMAIN orders \ {o} : orders[x].paymentIntentId = data.paymentIntentId

UpdateOk(o, data) == OrderExists(o) /\ ~TakenElsewhere(o, data)

UpdateCaught(o, data) == IF UpdateOk(o, data) THEN OrderUpdated(o, data) ELSE orders

\* a branch that takes every charge through the settlement
HoldPath_Always(d) == TRUE

\* awaiting_payment === true || order.type === "hold"
HoldPath(d) == d.awaiting \/ d.type = "hold"

SettlementKey_ByOrder(pi) == pi.order

\* idempotencyKey: pi.id
SettlementKey(pi) == pi.id

SettleNext_Swallow(outcome) == "markPaid"

\* try { createPayment } catch { throw InternalServerErrorException }
SettleNext(outcome) == IF outcome = "ok" THEN "markPaid" ELSE "raise"

ConfirmNext_Unchecked(ok) == "markRefunded"

\* the order.update of the full-refund branch follows a confirm that returned
ConfirmNext(ok) == IF ok THEN "markRefunded" ELSE "idle"

IsFullRefund_AmountOnly(refunded, currency, total, totalCur) ==
  LET a == toMinorUnits(refunded, currency)
      b == toMinorUnits(total, totalCur)
  IN a # InvalidAmount /\ b # InvalidAmount /\ a = b

\* try { toMinorUnits(refunded, currency) === toMinorUnits(total, totalCur)
\*       && currency === totalCur } catch { false }
IsFullRefund(refunded, currency, total, totalCur) ==
  LET a == toMinorUnits(refunded, currency)
      b == toMinorUnits(total, totalCur)
  IN a # InvalidAmount /\ b # InvalidAmount /\ a = b /\ currency = totalCur

payFrame == <<users, cancellations, scheduleChanges, whOnly, pollSeq, pollOnly, intentOnly,
              ticketOnly, refundOnly, asideOnly>>

\* The call returns {received: true} / an exception leaves handleWebhook.
Returns(p) == pay' = [p EXCEPT !.pc = "idle"] /\ payResult' = "received"
Raises(p) == pay' = [p EXCEPT !.pc = "idle"] /\ payResult' = "raised"

\* A notification arrives and passes constructEvent.
StripeDeliver(ev) ==
  /\ pay.pc = "idle"
  /\ stripeDeliveries < MaxStripeDeliveries
  /\ stripeDeliveries' = stripeDeliveries + 1
  /\ pay' = [PayIdle EXCEPT !.pc = "switch", !.ev = ev.id]
  /\ payResult' = "pending"
  /\ UNCHANGED <<payFrame, orders, pollQueue, duffel, settleCalls, settledKeys, settled>>

\* default branch of the switch
PayUnhandled ==
  /\ pay.pc = "switch"
  /\ PayEv.type = "customer.created"
  /\ Returns(pay)
  /\ UNCHANGED <<payFrame, orders, pollQueue, duffel, stripeDeliveries,
                 settleCalls, settledKeys, settled>>

\* payment_intent.succeeded up to the branch on "awaiting"; fetched = FALSE:
\* getOrder throws.
PaySucceededLookup(fetched) ==
  /\ pay.pc = "switch"
  /\ PayEv.type = "payment_intent.succeeded"
  /\ fetched => (PayOrder # Null /\ duffel[PayOrder].exists)
  /\ IF PayOrder = Null THEN Returns(pay)
     ELSE IF ~fetched THEN Raises(pay)
     ELSE /\ pay' = [pay EXCEPT !.pc = IF HoldPath(duffel[PayOrder])
                                          THEN "settle" ELSE "instant"]
          /\ UNCHANGED payResult
  /\ UNCHANGED <<payFrame, orders, pollQueue, duffel, stripeDeliveries,
                 settleCalls, settledKeys, settled>>

\* instant order: link the intent, pull the status if the row has none,
\* enqueue the poll.
PayInstantLink ==
  /\ pay.pc = "instant"
  /\ LET o == PayOrder
         link == [paymentProvider |-> "STRIPE", paymentIntentId |-> PayIntent.id,
                  paymentStatus |-> "succeeded"]
         fresh == duffel[o].status
         linked == UpdateCaught(o, link)
     IN /\ orders' = IF UpdateOk(o, link) /\ linked[o].status = Null /\ fresh # Null
                       THEN [linked EXCEPT ![o].status = fresh]
                       ELSE linked
        /\ pollQueue' = QueueAddWithId(pollQueue, o, 1)
  /\ Returns(pay)
  /\ UNCHANGED <<payFrame, duffel, stripeDeliveries, settleCalls, settledKeys, settled>>

\* hold order: DuffelService.createPayment.  outcome "ok": the provider
\* answers 2xx; "lost": the provider executes the request but the answer
\* does not arrive; "rejected": the provider refuses.  The provider honours
\* idempotency keys: a request whose key it has executed is not executed again.
PaySettle(outcome) ==
  /\ pay.pc = "settle"
  /\ LET o == PayOrder
         key == SettlementKey(PayIntent)
         call == [order_id |-> o,
                  amount |-> fromMinorUnits(PayIntent.amount, PayIntent.currency),
                  currency |-> Upper(Upper(PayIntent.currency)),
                  idempotencyKey |-> key,
                  pi |-> PayIntent.id,
                  delivery |-> stripeDeliveries]
         executes == outcome \in {"ok", "lost"} /\ key \notin settledKeys
         next == SettleNext(outcome)
         p == [pay EXCEPT !.settle = IF outcome = "ok" THEN "ok" ELSE "failed"]
     IN /\ settleCalls' = settleCalls \cup {call}
        /\ settledKeys' = IF executes THEN settledKeys \cup {key} ELSE settledKeys
        /\ settled' = IF executes THEN [settled EXCEPT ![PayIntent.id] = @ + 1] ELSE settled
        /\ duffel' = IF executes
                       THEN [duffel EXCEPT ![o].awaiting = FALSE, ![o].paidAt = TRUE]
                       ELSE duffel
        /\ IF next = "raise"
             THEN Raises(p)
             ELSE pay' = [p EXCEPT !.pc = next] /\ UNCHANGED payResult
  /\ UNCHANGED <<payFrame, orders, pollQueue, stripeDeliveries>>

\* hold order after createPayment returned: mark the Order paid, enqueue the poll.
PayMarkPaid ==
  /\ pay.pc = "markPaid"
  /\ orders' = UpdateCaught(PayOrder,
                 [paymentProvider |-> "STRIPE", paymentIntentId |-> PayIntent.id,
                  paymentStatus |-> "succeeded", paidAt |-> TRUE, status |-> "paid"])
  /\ pollQueue' = QueueAddWithId(pollQueue, PayOrder, 1)
  /\ Returns(pay)
  /\ UNCHANGED <<payFrame, duffel, stripeDeliveries, settleCalls, settledKeys, settled>>

\* payment_intent.payment_failed
PayFailed ==
  /\ pay.pc = "switch"
  /\ PayEv.type = "payment_intent.payment_failed"
  /\ orders' = IF PayOrder # Null
                 THEN UpdateCaught(PayOrder, [paymentStatus |-> "failed",
                                              status |-> "payment_failed"])
                 ELSE orders
  /\ Returns(pay)
  /\ UNCHANGED <<payFrame, pollQueue, duffel, stripeDeliveries,
                 settleCalls, settledKeys, settled>>

\* charge.refunded / refund.updated up to the classification.  retrieved =
\* FALSE: charges.retrieve or paymentIntents.retrieve throws; fetched =
\* FALSE: getOrder throws.  Neither call is inside a try block.
PayRefundLookup(retrieved, fetched) ==
  /\ pay.pc = "switch"
  /\ PayEv.type \in RefundTypes
  /\ fetched => (retrieved /\ PayOrder # Null /\ duffel[PayOrder].exists)
  /\ IF ~retrieved THEN Raises(pay) /\ UNCHANGED orders
     ELSE IF PayOrder = Null THEN Returns(pay) /\ UNCHANGED orders
     ELSE IF ~fetched THEN Raises(pay) /\ UNCHANGED orders
     ELSE LET o == PayOrder
              currency == Upper(PayEv.currency)
              refunded == fromMinorUnits(PayEv.amount_refunded, currency)
              total == duffel[o].total_amount
              totalCur == Upper(duffel[o].total_currency)
              p == [pay EXCEPT !.refunded = refunded, !.currency = currency,
                               !.total = total, !.totalCur = totalCur]
          IN IF NoTotals(duffel[o])
               THEN Returns(pay) /\ UNCHANGED orders
             ELSE IF IsFullRefund(refunded, currency, total, totalCur)
               THEN /\ pay' = [p EXCEPT !.pc = "quote"]
                    /\ UNCHANGED <<payResult, orders>>
             ELSE /\ orders' = UpdateCaught(o, [paymentStatus |-> "partially_refunded"])
                  /\ Returns(p)
  /\ UNCHANGED <<payFrame, pollQueue, duffel, stripeDeliveries,
                 settleCalls, settledKeys, settled>>

\* full refund: createOrderCancellation; a failure is logged only.
PayRefundQuote(ok) ==
  /\ pay.pc = "quote"
  /\ LET p == [pay EXCEPT !.calls = Append(@, [op |-> "quote", ok |-> ok])]
     IN IF ok THEN pay' = [p EXCEPT !.pc = "confirm"] /\ UNCHANGED payResult
        ELSE Returns(p)
  /\ UNCHANGED <<payFrame, orders, pollQueue, duffel, stripeDeliveries,
                 settleCalls, settledKeys, settled>>

\* full refund: confirmOrderCancellation(quote.id); a failure is logged only.
PayRefundConfirm(ok) ==
  /\ pay.pc = "confirm"
  /\ LET p == [pay EXCEPT !.calls = Append(@, [op |-> "confirm", ok |-> ok])]
         next == ConfirmNext(ok)
     IN IF next = "idle" THEN Returns(p)
        ELSE pay' = [p EXCEPT !.pc = next] /\ UNCHANGED payResult
  /\ duffel' = IF ok THEN [duffel EXCEPT ![PayOrder].status = "cancelled"] ELSE duffel
  /\ UNCHANGED <<payFrame, orders, pollQueue, stripeDeliveries,
                 settleCalls, settledKeys, settled>>

\* full refund after the confirm returned: mark the Order refunded.
PayMarkRefunded ==
  /\ pay.pc = "markRefunded"
  /\ orders' = UpdateCaught(PayOrder, [paymentStatus |-> "refunded", status |-> "refunded"])
  /\ Returns(pay)
  /\ UNCHANGED <<payFrame, pollQueue, duffel, stripeDeliveries,
                 settleCalls, settledKeys, settled>>

\* ------------------------------------------------------------- SpecPay
\* Order o1 as GET /orders/o1 of the provider may return it: hold or instant,
\* awaiting payment or not, paid or not, with the totals below.
\* "100.00" EUR, "100.00" USD, "100" EUR, "40.00" EUR, no totals, "1." EUR,
\* "10000" JPY.
ProviderTotals ==
  { <<Amt100, "EUR">>, <<Amt100, "USD">>, <<<<1, 0, 0>>, "EUR">>, <<Amt40, "EUR">>,
    <<NullAmt, Null>>, <<<<1, DOT>>, "EUR">>, <<<<1, 0, 0, 0, 0>>, "JPY">> }

ProviderOrders ==
  { [NoDuffelOrder EXCEPT !.exists = TRUE, !.type = ty, !.awaiting = aw, !.paidAt = pd,
                          !.total_amount = t[1], !.total_currency = t[2]] :
      ty \in {"hold", "instant"}, aw \in BOOLEAN, pd \in BOOLEAN, t \in ProviderTotals }

InitPay ==
  /\ users = {"u1"}
  /\ orders \in {NoRows, [o \in {"o1"} |-> UserOrderRow]}
  /\ cancellations = NoRows
  /\ scheduleChanges = EmptyBag
  /\ processedKeys = {}
  /\ webhookEvents = NoRows
  /\ whQueue = EmptyBag
  /\ wstate = [w \in Workers |-> Idle]
  /\ deliveries = 0
  /\ pollQueue = {}
  /\ pollSeq = 0
  /\ applied = [k \in LedgerKeys |-> 0]
  /\ completed = [k \in LedgerKeys |-> 0]
  /\ skipped = [k \in LedgerKeys |-> 0]
  /\ \E d \in ProviderOrders :
       duffel = [o \in OrderIds |-> IF o = "o1" THEN d ELSE NoDuffelOrder]
  /\ tickets = {}
  /\ orderChanges = {}
  /\ refreshes = 0
  /\ pollLog = [o \in OrderIds |-> 0]
  /\ PaymentsQuiet

NextPay ==
  \/ \E ev \in StripeCatalog : StripeDeliver(ev)
  \/ PayUnhandled
  \/ \E fetched \in BOOLEAN : PaySucceededLookup(fetched)
  \/ PayInstantLink
  \/ \E outcome \in {"ok", "lost", "rejected"} : PaySettle(outcome)
  \/ PayMarkPaid
  \/ PayFailed
  \/ \E retrieved \in BOOLEAN, fetched \in BOOLEAN : PayRefundLookup(retrieved, fetched)
  \/ \E ok \in BOOLEAN : PayRefundQuote(ok)
  \/ \E ok \in BOOLEAN : PayRefundConfirm(ok)
  \/ PayMarkRefunded
  \/ \E o \in OrderIds, fetched \in BOOLEAN, created \in BOOLEAN :
       createIntentForOrder(o, fetched, created)

SpecPay == InitPay /\ [][NextPay]_vars

\* ------------------------------------------------------ payment claims
\* C5: every settlement request sent on charge success carries the charge's
\* amount and currency and the payment-intent id as idempotency key, so all
\* requests for one charge share one key, and a provider honouring
\* idempotency keys executes at most one settlement per charge.
SettlementKeyedByIntent ==
  /\ \A c \in settleCalls :
       LET pi == PaymentIntents[c.pi]
       IN /\ c.idempotencyKey = pi.id
          /\ c.order_id = pi.order
          /\ Lower(c.currency) = pi.currency
          /\ toMinorUnits(c.amount, c.currency) = pi.amount
  /\ \A c1, c2 \in settleCalls : c1.pi = c2.pi => c1.idempotencyKey = c2.idempotencyKey
  /\ \A p \in DOMAIN settled : settled[p] <= 1

\* C5 witness: two deliveries of the charge success each sent a settlement
\* request and the provider executed one settlement.
SettledOnceOverTwoDeliveries ==
  /\ Cardinality(settleCalls) = 2
  /\ settled["pi1"] = 1
  /\ pay.pc = "idle"

\* C6: a failed settlement call makes handleWebhook raise, leaves the Order
\* rows untouched and enqueues no poll; an Order becomes paid only in the
\* step that follows a settlement call that returned, and that step leaves a
\* poll job of the order in the queue.
SettlementFailureRaises ==
  [][ /\ (pay.pc = "settle" /\ pay'.settle = "failed")
          => /\ payResult' = "raised"
             /\ pay'.pc = "idle"
             /\ orders' = orders
             /\ pollQueue' = pollQueue
      /\ \A o \in OrderIds :
           (/\ o \in DOMAIN orders'
            /\ orders'[o].status = "paid"
            /\ ~(OrderExists(o) /\ orders[o].status = "paid"))
             => pay.pc = "markPaid" /\ pay.settle = "ok" /\ PayOrder = o
      /\ (pay.pc = "markPaid" /\ pay'.pc = "idle")
          => /\ payResult' = "received"
             /\ \E j \in pollQueue' : j.id = PollJobId(PayOrder) /\ j.orderId = PayOrder
    ]_vars

\* C6 witness: the settlement call for the hold order failed, the call
\* raised, the Order row is as before and no poll is queued.
SettlementFailedAndRaised ==
  /\ payResult = "raised"
  /\ pay.settle = "failed"
  /\ OrderExists("o1") /\ orders["o1"] = UserOrderRow
  /\ pollQueue = {}

\* The Booking Provider reports order o as awaiting payment, not paid, and
\* of a type other than instant.
UnpaidHold(o) == duffel[o].awaiting /\ ~duffel[o].paidAt /\ duffel[o].type # "instant"

\* C7 (amended): createIntentForOrder sends a create request to the Payment
\* Provider only for an order reported awaiting payment, without paid_at and
\* of a type other than instant; for any other order that the Booking
\* Provider returns with its totals the result is ok:false with code
\* already_paid_or_instant and no request is sent.
IntentOnlyForUnpaidHold ==
  [][ intentRuns' # intentRuns =>
        LET o == intentResult'.order
        IN /\ (stripeCalls' # stripeCalls \/ intents' # intents) => UnpaidHold(o)
           /\ (intentResult'.code # "threw" /\ ~NoTotals(duffel[o]) /\ ~UnpaidHold(o))
                => /\ intentResult' = [ok |-> FALSE, code |-> "already_paid_or_instant",
                                       order |-> o]
                   /\ stripeCalls' = stripeCalls
                   /\ intents' = intents
    ]_vars

\* C7 witness: an instant order with totals was refused with the policy code
\* and the Payment Provider was not called.
IntentRefusedForInstant ==
  /\ intentRuns = 1
  /\ intentResult = [ok |-> FALSE, code |-> "already_paid_or_instant", order |-> "o1"]
  /\ duffel["o1"].type = "instant"
  /\ ~NoTotals(duffel["o1"])
  /\ stripeCalls = 0

\* C7 as stated: every order that is not an unpaid hold order is refused
\* with code already_paid_or_instant.
IntentRefusalAlwaysPolicyCode ==
  [][ intentRuns' # intentRuns =>
        LET o == intentResult'.order
        IN /\ (stripeCalls' # stripeCalls \/ intents' # intents) => UnpaidHold(o)
           /\ (intentResult'.code # "threw" /\ ~UnpaidHold(o))
                => /\ intentResult'.code = "already_paid_or_instant"
                   /\ ~intentResult'.ok
                   /\ stripeCalls' = stripeCalls
    ]_vars

\* C8 (amended): when the refund handler has obtained the order's totals it
\* goes on to request a cancellation exactly when the refunded currency is
\* the order's total currency and both amounts parse to the same minor
\* units; otherwise it returns without any cancellation request and the
\* only write is paymentStatus = partially_refunded on the Order row.
\* Cancellation requests are sent for refunds classified full only.
RefundFullIffSameMinorAndCurrency ==
  [][ /\ (/\ pay.pc = "switch" /\ pay'.pc # "switch"
          /\ PayEv.type \in RefundTypes
          /\ payResult' # "raised"
          /\ PayOrder # Null
          /\ ~NoTotals(duffel[PayOrder]))
          => LET o == PayOrder
                 cur == Upper(PayEv.currency)
                 ma == toMinorUnits(fromMinorUnits(PayEv.amount_refunded, cur), cur)
                 mb == toMinorUnits(duffel[o].total_amount, duffel[o].total_currency)
                 full == cur = duffel[o].total_currency /\ ma \in Nat /\ mb \in Nat /\ ma = mb
             IN IF full
                  THEN pay'.pc = "quote" /\ orders' = orders
                  ELSE /\ pay'.pc = "idle" /\ payResult' = "received" /\ pay'.calls = <<>>
                       /\ orders' = IF OrderExists(o)
                                      THEN [orders EXCEPT ![o].paymentStatus =
                                                            "partially_refunded"]
                                      ELSE orders
      /\ Len(pay'.calls) > Len(pay.calls)
          => /\ pay.currency = pay.totalCur
             /\ toMinorUnits(pay.refunded, pay.currency) \in Nat
             /\ toMinorUnits(pay.refunded, pay.currency) = toMinorUnits(pay.total, pay.totalCur)
    ]_vars

\* C8 witness: a refund of 100.00 EUR on an order of 100.00 USD was recorded
\* as partial, without cancellation request.
RefundInOtherCurrencyIsPartial ==
  /\ pay.pc = "idle" /\ payResult = "received"
  /\ pay.refunded = Amt100 /\ pay.currency = "EUR"
  /\ pay.total = Amt100 /\ pay.totalCur = "USD"
  /\ pay.calls = <<>>
  /\ OrderExists("o1") /\ orders["o1"].paymentStatus = "partially_refunded"

\* C8 as stated: every refund notification of an order that is not a full
\* refund is recorded as paymentStatus = partially_refunded.
RefundNotFullIsRecordedPartial ==
  [][ (/\ pay.pc = "switch" /\ pay'.pc # "switch"
       /\ PayEv.type \in RefundTypes
       /\ payResult' # "raised"
       /\ PayOrder # Null)
        => LET o == PayOrder
               cur == Upper(PayEv.currency)
               ma == toMinorUnits(fromMinorUnits(PayEv.amount_refunded, cur), cur)
               mb == toMinorUnits(duffel[o].total_amount, duffel[o].total_currency)
               full == cur = duffel[o].total_currency /\ ma \in Nat /\ mb \in Nat /\ ma = mb
           IN IF full
                THEN pay'.pc = "quote"
                ELSE /\ pay'.pc = "idle" /\ pay'.calls = <<>>
                     /\ OrderExists(o) => orders'[o].paymentStatus = "partially_refunded"
    ]_vars

\* C9: on a full refund the quote is requested first and the confirm only
\* after the quote returned; the Order rows change only after both returned,
\* and then to status = paymentStatus = refunded; a failed quote or confirm
\* ends the call with {received: true} and the Order rows untouched.
FullRefundCancelsThenMarks ==
  [][ pay.pc \in {"quote", "confirm", "markRefunded"} =>
        /\ (pay.pc = "quote" => pay.calls = <<>>)
        /\ (pay.pc = "confirm" => pay.calls = <<[op |-> "quote", ok |-> TRUE]>>)
        /\ (Len(pay'.calls) > Len(pay.calls)
              => /\ pay'.calls[Len(pay'.calls)].op = IF pay.calls = <<>> THEN "quote" ELSE "confirm"
                 /\ orders' = orders
                 /\ ~pay'.calls[Len(pay'.calls)].ok
                      => pay'.pc = "idle" /\ payResult' = "received")
        /\ (orders' # orders
              => /\ pay.calls = <<[op |-> "quote", ok |-> TRUE], [op |-> "confirm", ok |-> TRUE]>>
                 /\ orders' = [orders EXCEPT ![PayOrder].status = "refunded",
                                             ![PayOrder].paymentStatus = "refunded"])
        /\ (payResult' # payResult => payResult' = "received")
    ]_vars

\* C9 witness: quote and confirm returned and the Order was then marked
\* refunded; the call returned {received: true}.
FullRefundMarkedAfterConfirm ==
  /\ pay.pc = "idle" /\ payResult = "received"
  /\ pay.calls = <<[op |-> "quote", ok |-> TRUE], [op |-> "confirm", ok |-> TRUE]>>
  /\ OrderExists("o1") /\ orders["o1"].status = "refunded"
  /\ orders["o1"].paymentStatus = "refunded"

\* =========================================== claims on the event handlers
OrderEventKeys ==
  {LedgerKey(e) : e \in {x \in WebhookCatalog :
     x.type \in {"order.created", "order.updated",
                 "order.airline_initiated_change_detected"}}}

\* C11: for a cancellation of an order whose row exists, once both
\* order_cancellation.created and order_cancellation.confirmed have been
\* processed (in either order, no other order event having been applied) the
\* Cancellation mirror exists with the quote financials and a confirmation
\* time, and the Order has status = paymentStatus = cancelled.
CancellationConverges ==
  \A cr, cf \in WebhookCatalog :
    (/\ cr.type = "order_cancellation.created"
     /\ cf.type = "order_cancellation.confirmed"
     /\ cr.cid = cf.cid
     /\ OrderExists(cr.oid)
     /\ \A k \in OrderEventKeys : applied[k] = 0
     /\ completed[LedgerKey(cr)] >= 1
     /\ completed[LedgerKey(cf)] >= 1)
      => /\ cr.cid \in DOMAIN cancellations
         /\ cancellations[cr.cid].refundAmount = cr.amount
         /\ cancellations[cr.cid].refundCurrency = cr.currency
         /\ cancellations[cr.cid].confirmedAt
         /\ orders[cr.oid].status = "cancelled"
         /\ orders[cr.oid].paymentStatus = "cancelled"

\* ======================================== processor and poller interleaved
\* EticketPollProcessor.process up to the first write of
\* persistTicketDocuments: the fetch, the filter and order.findUnique.  With
\* no electronic ticket nothing is written and the run ends as in PollProcess.
PollFetch(j, fetched) ==
  /\ j \in pollQueue
  /\ j.state = "active"
  /\ pollRun.pc # "persist"
  /\ fetched => duffel[j.orderId].exists
  /\ pollLog' = [pollLog EXCEPT ![j.orderId] = j.attempt]
  /\ LET o == j.orderId
         eDocs == IF fetched THEN EDocs(duffel[o].docs) ELSE <<>>
     IN IF Len(eDocs) > 0
          THEN /\ pollRun' = [pollRun EXCEPT !.pc = "persist", !.job = j.id,
                                 !.found = OrderExists(o), !.eDocs = eDocs]
               /\ UNCHANGED pollQueue
          ELSE /\ pollRun' = Requeued(j, fetched)
               /\ pollQueue' =
                    IF j.attempt >= MaxAttempts
                      THEN pollQueue \ {j}
                      ELSE RequeueSameId(pollQueue, j) \ {j}
  /\ UNCHANGED <<whAndCalm, users, orders, tickets, pollSeq, duffel, orderChanges, refreshes>>

\* The rest of the run: order.create when findUnique had found no row (a row
\* inserted meanwhile violates the unique index on duffelId; the exception
\* leaves process() and BullMQ puts the job back for its next attempt), the
\* ticket upserts, order.update and markEticketReady.
PollPersist ==
  /\ pollRun.pc = "persist"
  /\ LET j == CHOOSE x \in pollQueue : x.id = pollRun.job /\ x.state = "active"
         o == j.orderId
     IN IF ~pollRun.found /\ OrderExists(o)
          THEN /\ pollRun' = [pollRun EXCEPT !.pc = "failed"]
               /\ pollQueue' = (pollQueue \ {j}) \cup {[j EXCEPT !.state = "waiting"]}
               /\ UNCHANGED <<users, orders, tickets>>
          ELSE /\ \E u \in EnsuredUsers :
                    orders' = MarkedReady(OrdersWithRow(o, u), o, duffel[o].status)
               /\ users' = IF OrderExists(o) THEN users ELSE EnsuredUsers
               /\ tickets' = PersistLoop(tickets, o, pollRun.eDocs, 1)
               /\ pollQueue' = pollQueue \ {j}
               /\ pollRun' = [pollRun EXCEPT !.pc = "done"]
  /\ UNCHANGED <<whAndCalm, pollSeq, duffel, orderChanges, refreshes, pollLog>>

\* Booking o1 exists at the provider with its ticket issued; the engine has
\* no Order row for it yet.
InitMix ==
  /\ users = {"u1"}
  /\ orders = NoRows
  /\ cancellations = NoRows
  /\ scheduleChanges = EmptyBag
  /\ processedKeys = {}
  /\ webhookEvents = NoRows
  /\ whQueue = EmptyBag
  /\ wstate = [w \in Workers |-> Idle]
  /\ deliveries = 0
  /\ pollQueue = {}
  /\ pollSeq = 0
  /\ applied = [k \in LedgerKeys |-> 0]
  /\ completed = [k \in LedgerKeys |-> 0]
  /\ skipped = [k \in LedgerKeys |-> 0]
  /\ duffel = [o \in OrderIds |->
                 IF o = "o1"
                   THEN [NoDuffelOrder EXCEPT !.exists = TRUE, !.type = "instant",
                           !.paidAt = TRUE, !.status = "confirmed",
                           !.total_amount = Amt100, !.total_currency = "EUR",
                           !.docs = <<ETicket("t1")>>]
                   ELSE NoDuffelOrder]
  /\ tickets = {}
  /\ orderChanges = {}
  /\ refreshes = 0
  /\ pollLog = [o \in OrderIds |-> 0]
  /\ PaymentsQuiet

OrderMetaEvents == {e \in WebhookCatalog : e.type \in {"order.created", "order.updated"}}

NextMix ==
  \/ \E ev \in OrderMetaEvents : enqueueAndPersist(ev)
  \/ WorkerTake("w1")
  \/ ProcLookup("w1")
  \/ DispatchOrderCreated("w1")
  \/ DispatchOrderUpdated("w1")
  \/ ProcMark("w1")
  \/ ProcStamp("w1")
  \/ refresh("o1")
  \/ \E j \in pollQueue : PollTake(j)
  \/ \E j \in pollQueue, fetched \in BOOLEAN : PollFetch(j, fetched)
  \/ PollPersist

SpecMix == InitMix /\ [][NextMix]_vars

\* C12: no operation on an Order fails because another component wrote the
\* same Order in between; in particular a poll run and an order upsert that
\* both meet an unknown booking id both succeed.
NoWriteFailsByInterleaving == pollRun.pc # "failed"


\* ---------------------------------------------------------------------------
\* persistTicketDocuments on its own, under each TicketDocument schema
\* ---------------------------------------------------------------------------

ETicketAt(uid, url) == [type |-> "electronic_ticket", uid |-> uid, url |-> url]

\* Document lists a booking can carry: those of DocLists, two tickets with
\* one unique_identifier, and a ticket without unique_identifier before one
\* that has it.
TicketLists ==
  DocLists \cup { <<ETicketAt("1", "urlA"), ETicketAt("1", "urlB")>>,
                  <<ETicket(Null), ETicket("1")>> }

\* the value of `saved` when the loop ends
RECURSIVE PersistSaved(_, _, _, _)
PersistSaved(tk, o, eDocs, i) ==
  IF i > Len(eDocs) \/ TicketThrows(tk, o, eDocs[i], i) THEN 0
  ELSE 1 + PersistSaved(TicketUpserted(tk, o, eDocs[i], i), o, eDocs, i + 1)

\* OrdersService.persistTicketDocuments(duffelOrderId, documents)
persistTicketDocuments(o, docs) ==
  LET eDocs == EDocs(docs)
      threw == PersistThrows(tickets, o, eDocs, 1)
  IN /\ IF Len(eDocs) = 0
          THEN UNCHANGED <<users, orders, tickets>>
          ELSE /\ \E u \in EnsuredUsers :
                    orders' = IF threw THEN OrdersWithRow(o, u)
                              ELSE MarkedReady(OrdersWithRow(o, u), o, Null)
               /\ users' = IF OrderExists(o) THEN users ELSE EnsuredUsers
               /\ tickets' = PersistLoop(tickets, o, eDocs, 1)
     /\ persisted' = [orderId |-> o, docs |-> docs, threw |-> threw,
                      again |-> (persisted.orderId = o /\ persisted.docs = docs),
                      saved |-> IF threw THEN 0 ELSE PersistSaved(tickets, o, eDocs, 1)]
     /\ UNCHANGED <<cancellations, scheduleChanges, whOnly, pollQueue, pollSeq, duffel,
                    orderChanges, refreshes, pollLog, pollRun, payOnly, ticketSchema,
                    refundOnly, asideOnly>>

InitTickets ==
  /\ users = {"u1"}
  /\ orders = NoRows
  /\ cancellations = NoRows
  /\ scheduleChanges = EmptyBag
  /\ processedKeys = {}
  /\ webhookEvents = NoRows
  /\ whQueue = EmptyBag
  /\ wstate = [w \in Workers |-> Idle]
  /\ deliveries = 0
  /\ pollQueue = {}
  /\ pollSeq = 0
  /\ applied = [k \in LedgerKeys |-> 0]
  /\ completed = [k \in LedgerKeys |-> 0]
  /\ skipped = [k \in LedgerKeys |-> 0]
  /\ duffel = [o \in OrderIds |-> NoDuffelOrder]
  /\ tickets = {}
  /\ orderChanges = {}
  /\ refreshes = 0
  /\ pollLog = [o \in OrderIds |-> 0]
  /\ TicketsQuiet
  /\ StripeQuiet
  /\ ticketSchema \in TicketSchemas

NextTickets == \E o \in OrderIds, docs \in TicketLists : persistTicketDocuments(o, docs)

SpecTickets == InitTickets /\ [][NextTickets]_vars

\* C13: persisting the e-tickets of one order succeeds, leaves the rows of
\* every other order as they were, and gives every ticket that carries a
\* unique_identifier a row attached to its own order, under each schema --
\* also when another order already holds a ticket with that identifier.
DistinctRowsPerOrder ==
  [][\A o \in OrderIds, docs \in TicketLists :
       persistTicketDocuments(o, docs) =>
         /\ ~persisted'.threw
         /\ \A t \in tickets : t.orderId # o => t \in tickets'
         /\ \A i \in 1..Len(EDocs(docs)) :
              EDocs(docs)[i].uid # Null =>
                \E t \in tickets' :
                  /\ t.orderId = o
                  /\ t.uniqueId \in {EDocs(docs)[i].uid, Namespaced(o, EDocs(docs)[i].uid)}]_vars


\* rows of order o that hold one of the documents of eDocs
RowsOfDocs(tk, o, eDocs) ==
  {t \in tk : /\ t.orderId = o
              /\ \E i \in 1..Len(eDocs) : t.type = eDocs[i].type /\ t.url = eDocs[i].url}

\* C14: the number persistTicketDocuments returns is the number of distinct
\* rows present for the e-ticket documents it was given, also when several of
\* them carry one unique_identifier.
SavedCountsDistinctRows ==
  (persisted.orderId # Null /\ ~persisted.threw) =>
    persisted.saved =
      Cardinality(RowsOfDocs(tickets, persisted.orderId, EDocs(persisted.docs)))


\* C15: calling persistTicketDocuments again for the same order with the same
\* list leaves the TicketDocument rows exactly as the first call left them,
\* and no call removes a row.
PersistIsIdempotent ==
  [][/\ \A t \in tickets : \E t2 \in tickets' : t2.id = t.id
     /\ \A o \in OrderIds, docs \in TicketLists :
          (persistTicketDocuments(o, docs) /\ persisted'.again) => tickets' = tickets]_vars

\* a list of two e-tickets has just been persisted a second time
PersistedTwice ==
  /\ persisted.again
  /\ Len(EDocs(persisted.docs)) = 2
  /\ \E t \in tickets : t.orderId = persisted.orderId


AirlineChangeEvents(o) ==
  {e \in WebhookCatalog : e.type = "order.airline_initiated_change_detected" /\ e.oid = o}

\* C16: applying the effect of one event again leaves the stored rows as one
\* application left them: an order never carries more schedule-change
\* records than there are distinct airline-change events for it.
ReapplyAddsNoRow ==
  \A o \in OrderIds :
    CopiesIn([orderId |-> o], scheduleChanges) <= Cardinality(AirlineChangeEvents(o))


\* C17: when the dispatch of an order.created or order.updated event leaves
\* the order confirmed or ticketed, a poll job for the order is in the
\* eticket-poll queue.
PollPendingAfterConfirmed ==
  [][\A w \in Workers :
       ((DispatchOrderCreated(w) \/ DispatchOrderUpdated(w))
          /\ Ev(w).oid # Null
          /\ orders'[Ev(w).oid].status \in {"confirmed", "ticketed"})
       => \E j \in pollQueue' : j.orderId = Ev(w).oid]_vars


OrderReferencingTypes ==
  {"order.created", "order.updated", "order.airline_initiated_change_detected",
   "order_cancellation.created", "order_cancellation.confirmed"}

\* C18: when the dispatch of an event of an order-referencing type ends, the
\* Order row of the booking it names exists (created with a placeholder owner
\* if it was unknown) and the dispatch has not thrown.
FirstEventCreatesOrder ==
  [][\A w \in Workers :
       (/\ wstate[w].pc = "dispatch"
        /\ wstate'[w].pc # "dispatch"
        /\ Ev(w).type \in OrderReferencingTypes
        /\ Ev(w).oid # Null)
       => /\ Ev(w).oid \in DOMAIN orders'
          /\ wstate'[w].pc = "mark"]_vars


\* C19: a verified Payment-Provider notification is answered with
\* {received: true} whatever fails downstream; the handler raises only out
\* of a failed settlement call.
AcknowledgesUnlessSettlementFails ==
  [][(pay.pc # "idle" /\ pay'.pc = "idle") =>
       \/ payResult' = "received"
       \/ (pay.pc = "settle" /\ pay'.settle = "failed")]_vars


\* C20: a settlement or a cancellation-confirm call that ends without an
\* answer is attempted again: the handler either repeats the call or leaves
\* the notification unacknowledged, so that it is delivered again; it never
\* acknowledges the notification with the call left failed.
UnansweredCallIsRetried ==
  [][/\ (pay.pc = "settle" /\ pay'.settle = "failed")
          => (pay'.pc = "settle" \/ payResult' = "raised")
     /\ (pay.pc = "confirm" /\ pay'.calls = Append(pay.calls, [op |-> "confirm", ok |-> FALSE]))
          => (pay'.pc = "confirm" \/ payResult' = "raised")]_vars


\* ---------------------------------------------------------------------------
\* PaymentsService.refundOrder
\* ---------------------------------------------------------------------------
MaxRefundRuns == 2        \* calls of refundOrder per behaviour

\* What the Booking Provider answers to the pre-check, and to the confirm.
PreChecks == {"refundable", "not_refundable", "failed"}
ConfirmAnswers == {"id", "no_id", "failed"}

\* dto.amount: absent, "40.00", "1." (malformed)
RequestedAmounts == {NullAmt, Amt40, <<1, DOT>>}

\* refundCurrency = dto.currency ?? dbOrder.currency ?? pi.currency ?? "EUR"
\* (the request carries no currency)
RefundCurrency(row, pi) ==
  IF row.currency # Null THEN Upper(row.currency)
  ELSE IF pi # Null THEN Upper(PaymentIntents[pi].currency)
  ELSE "EUR"

\* Step 3: the amount in minor units; 0 stands for undefined (both are falsy
\* in step 5), InvalidAmount for a toMinorUnits that threw.
AmountMinor(dto, row, pi) ==
  IF dto # NullAmt THEN toMinorUnits(dto, RefundCurrency(row, pi))
  ELSE IF row.amount # NullAmt /\ row.currency # Null
    THEN toMinorUnits(row.amount, row.currency)
  ELSE IF pi # Null THEN PaymentIntents[pi].amount
  ELSE 0

\* Only the requested amount is converted inside a try block.
AmountRejected(dto, row, pi) == dto # NullAmt /\ AmountMinor(dto, row, pi) = InvalidAmount
AmountThrows(dto, row, pi) == dto = NullAmt /\ AmountMinor(dto, row, pi) = InvalidAmount

ConfirmAccepted_AnyAnswer(confirm) == confirm # "failed"

\* confirmOrderCancellation returned and duffelCancel?.id is set
ConfirmAccepted(confirm) == confirm = "id"

\* Step 5: the amount refunds.create is called with (0: no call).
StripeAmount(m, pi) ==
  IF pi = Null THEN 0
  ELSE IF m <= 0 THEN PaymentIntents[pi].amount ELSE m

RefundPaymentStatus_Always(stripeRefund) == "refunded"

\* paymentStatus: stripeRefund ? "refunded" : "cancelled"
RefundPaymentStatus(stripeRefund) == IF stripeRefund # Null THEN "refunded" ELSE "cancelled"

RefundFail(code) == [NoRefundOut EXCEPT !.code = code]
RefundThrew == [NoRefundOut EXCEPT !.code = "threw", !.threw = TRUE]

\* refund.create of step 6; a second row with the same duffelId is refused
\* and the failure swallowed.
RefundRowAdded(rows, row) ==
  IF \E r \in rows : r.duffelId = row.duffelId THEN rows ELSE rows \cup {row}

\* refundOrder(orderId, dto).  pre, readOk, pi, quoteOk, confirm, stripeOk:
\* what the pre-check, order.findUnique, the intent lookup, the quote, the
\* confirm and refunds.create answer.
refundOrder(o, dto, pre, readOk, pi, quoteOk, confirm, stripeOk) ==
  /\ refundLog.runs < MaxRefundRuns
  /\ pi # Null => (PaymentIntents[pi].order = o)
  /\ LET log == [runs |-> refundLog.runs + 1, order |-> o, pre |-> pre,
                 confirm |-> Null, calls |-> <<"getOrder">>, out |-> NoRefundOut]
         cancelId == "ocr_" \o ToString(refundLog.runs + 1)
     IN IF pre = "not_refundable"
          THEN /\ refundLog' = [log EXCEPT !.out = RefundFail("not_refundable")]
               /\ UNCHANGED <<orders, refundRows>>
        ELSE IF ~readOk
          THEN /\ refundLog' = [log EXCEPT !.out = RefundThrew]
               /\ UNCHANGED <<orders, refundRows>>
        ELSE IF ~OrderExists(o)
          THEN /\ refundLog' = [log EXCEPT !.out = RefundFail("order_not_found")]
               /\ UNCHANGED <<orders, refundRows>>
        ELSE IF AmountRejected(dto, orders[o], pi)
          THEN /\ refundLog' = [log EXCEPT !.out = RefundFail("invalid_amount")]
               /\ UNCHANGED <<orders, refundRows>>
        ELSE IF AmountThrows(dto, orders[o], pi)
          THEN /\ refundLog' = [log EXCEPT !.out = RefundThrew]
               /\ UNCHANGED <<orders, refundRows>>
        ELSE IF ~quoteOk
          THEN /\ refundLog' = [log EXCEPT !.calls = <<"getOrder", "quote">>,
                                           !.out = RefundFail("duffel_confirm_failed")]
               /\ UNCHANGED <<orders, refundRows>>
        ELSE IF ~ConfirmAccepted(confirm)
          THEN /\ refundLog' =
                    [log EXCEPT !.calls = <<"getOrder", "quote", "confirm">>,
                                !.confirm = confirm,
                                !.out = RefundFail(IF confirm = "failed"
                                                     THEN "duffel_confirm_failed"
                                                     ELSE "duffel_no_confirmation")]
               /\ UNCHANGED <<orders, refundRows>>
        ELSE LET m == StripeAmount(AmountMinor(dto, orders[o], pi), pi)
                 asked == m > 0
                 stripeRefund == IF asked /\ stripeOk THEN "re_" \o pi ELSE Null
                 cur == RefundCurrency(orders[o], pi)
             IN /\ refundLog' =
                     [log EXCEPT !.calls = <<"getOrder", "quote", "confirm">>
                                           \o (IF asked THEN <<"refund">> ELSE <<>>),
                                 !.confirm = confirm,
                                 !.out = [ok |-> TRUE, code |-> "ok", threw |-> FALSE,
                                          stripe_refund_id |-> stripeRefund,
                                          duffel_cancellation_id |->
                                            IF confirm = "id" THEN cancelId ELSE Null]]
                /\ orders' = OrderUpdated(o, [status |-> "cancelled",
                                              paymentStatus |->
                                                RefundPaymentStatus(stripeRefund)])
                /\ refundRows' =
                     RefundRowAdded(refundRows,
                       [duffelId |-> IF confirm = "id" THEN cancelId
                                     ELSE IF stripeRefund # Null
                                       THEN "stripe_" \o stripeRefund
                                     ELSE "duffel_unknown",
                        orderId |-> o,
                        amount |-> IF dto # NullAmt THEN dto ELSE orders[o].amount,
                        currency |-> cur,
                        status |-> IF stripeRefund # Null THEN "succeeded" ELSE "cancelled"])
  /\ UNCHANGED <<users, cancellations, scheduleChanges, whOnly, pollQueue, pollSeq, duffel,
                 pollOnly, payOnly, ticketOnly, asideOnly>>

\* Order o1 as the booking flow and the webhooks may have stored it: linked
\* to intent pi1 or not, with amount "100.00", "0" or "1.".
RefundStores ==
  { [o \in {"o1"} |-> [UserOrderRow EXCEPT !.amount = a, !.paymentIntentId = p]] :
      a \in {Amt100, <<0>>, <<1, DOT>>}, p \in {Null, "pi1"} }

InitRefund ==
  /\ users = {"u1"}
  /\ orders \in RefundStores
  /\ cancellations = NoRows
  /\ scheduleChanges = EmptyBag
  /\ processedKeys = {}
  /\ webhookEvents = NoRows
  /\ whQueue = EmptyBag
  /\ wstate = [w \in Workers |-> Idle]
  /\ deliveries = 0
  /\ pollQueue = {}
  /\ pollSeq = 0
  /\ applied = [k \in LedgerKeys |-> 0]
  /\ completed = [k \in LedgerKeys |-> 0]
  /\ skipped = [k \in LedgerKeys |-> 0]
  /\ duffel = [o \in OrderIds |-> NoDuffelOrder]
  /\ tickets = {}
  /\ orderChanges = {}
  /\ refreshes = 0
  /\ pollLog = [o \in OrderIds |-> 0]
  /\ PaymentsQuiet

NextRefund ==
  \E o \in OrderIds, dto \in RequestedAmounts, pre \in PreChecks, readOk \in BOOLEAN,
     pi \in {Null, "pi1"}, quoteOk \in BOOLEAN, confirm \in ConfirmAnswers,
     stripeOk \in BOOLEAN :
    refundOrder(o, dto, pre, readOk, pi, quoteOk, confirm, stripeOk)

SpecRefund == InitRefund /\ [][NextRefund]_vars

IsPrefix(s, t) == Len(s) <= Len(t) /\ s = SubSeq(t, 1, Len(s))

InSeq(x, s) == \E i \in 1..Len(s) : s[i] = x

\* C21: the provider calls of one refundOrder run are a prefix of pre-check,
\* quote, confirm, refund; no quote is requested after the provider stated
\* the order is not refundable; and the refund call, the Order update and the
\* Refund row happen only in a run whose confirm returned a confirmation id.
RefundStepsInOrder ==
  [][refundLog'.runs # refundLog.runs =>
       /\ IsPrefix(refundLog'.calls, <<"getOrder", "quote", "confirm", "refund">>)
       /\ refundLog'.pre = "not_refundable" => ~InSeq("quote", refundLog'.calls)
       /\ (\/ InSeq("refund", refundLog'.calls)
           \/ orders' # orders
           \/ refundRows' # refundRows)
            => /\ refundLog'.confirm = "id"
               /\ refundLog'.out.duffel_cancellation_id # Null]_vars

\* a run went through all four provider calls and changed the Order
RefundRanToTheEnd ==
  /\ refundLog.calls = <<"getOrder", "quote", "confirm", "refund">>
  /\ refundLog.confirm = "id"
  /\ orders["o1"].status = "cancelled"


\* C22: refundOrder never throws: every run ends in a returned result, and a
\* result with ok = FALSE carries a code.
RefundNeverThrows ==
  refundLog.runs > 0 =>
    /\ ~refundLog.out.threw
    /\ ~refundLog.out.ok => refundLog.out.code \in
         {"not_refundable", "order_not_found", "invalid_amount", "duffel_confirm_failed",
          "duffel_no_confirmation"}

\* C23: a run that cancelled the booking and created no Payment-Provider
\* refund returns stripe_refund_id = null and leaves the Order with status
\* cancelled and paymentStatus cancelled; paymentStatus refunded and a Refund
\* row with status succeeded are written only by a run whose refunds.create
\* call returned.
PartialRefundReportedPrecisely ==
  [][refundLog'.runs # refundLog.runs =>
       LET o == refundLog'.order
           out == refundLog'.out
       IN /\ (out.ok /\ out.stripe_refund_id = Null)
               => /\ orders'[o].status = "cancelled"
                  /\ orders'[o].paymentStatus = "cancelled"
          /\ (\/ (o \in DOMAIN orders /\ orders'[o].paymentStatus = "refunded"
                    /\ orders[o].paymentStatus # "refunded")
              \/ \E r \in refundRows' \ refundRows : r.status = "succeeded")
               => /\ out.stripe_refund_id # Null
                  /\ InSeq("refund", refundLog'.calls)]_vars

\* the booking was cancelled, the refund call failed, the run returned ok
CancelledWithoutMoney ==
  /\ refundLog.out.ok
  /\ refundLog.out.stripe_refund_id = Null
  /\ InSeq("refund", refundLog.calls)
  /\ orders["o1"].paymentStatus = "cancelled"


\* ---------------------------------------------------------------------------
\* DuffelWebhookService.verifySignature
\* ---------------------------------------------------------------------------
\* Strings of the secret are sequences over this alphabet.
SecretChars == {"A", "B", "+", "/", "-", "_", "=", " "}

\* the UTF-8 code of a character
CharCode(c) ==
  CASE c = "A" -> 65 [] c = "B" -> 66 [] c = "+" -> 43 [] c = "/" -> 47
    [] c = "-" -> 45 [] c = "_" -> 95 [] c = "=" -> 61 [] OTHER -> 32

\* Buffer.from(s, "utf8")
Utf8(s) == [i \in 1..Len(s) |-> CharCode(s[i])]

\* String.prototype.trim
RECURSIVE TrimLeft(_)
TrimLeft(s) == IF s # <<>> /\ s[1] = " " THEN TrimLeft(Tail(s)) ELSE s

RECURSIVE TrimRight(_)
TrimRight(s) ==
  IF s # <<>> /\ s[Len(s)] = " " THEN TrimRight(SubSeq(s, 1, Len(s) - 1)) ELSE s

Trim(s) == TrimRight(TrimLeft(s))

\* The 6-bit value of a base64 character; Node's decoder takes both the
\* standard and the URL-safe alphabet.
SextetOf(c) ==
  CASE c = "A" -> 0 [] c = "B" -> 1 [] c \in {"+", "-"} -> 62 [] OTHER -> 63

\* the characters before the first "="
RECURSIVE UpToPadding(_)
UpToPadding(s) ==
  IF s = <<>> \/ s[1] = "=" THEN <<>> ELSE <<s[1]>> \o UpToPadding(Tail(s))

\* the six bits of v, most significant first
SixBits(v) == [i \in 1..6 |-> (v \div (2 ^ (6 - i))) % 2]

RECURSIVE BitsOfChars(_)
BitsOfChars(s) == IF s = <<>> THEN <<>> ELSE SixBits(SextetOf(s[1])) \o BitsOfChars(Tail(s))

ByteAt(bits, n) ==
  LET b == SubSeq(bits, 8 * n - 7, 8 * n)
  IN b[1] * 128 + b[2] * 64 + b[3] * 32 + b[4] * 16 + b[5] * 8 + b[6] * 4 + b[7] * 2 + b[8]

\* Buffer.from(s, "base64"): whole bytes of the bits of the characters
\* before the padding
Base64Bytes(s) ==
  LET bits == BitsOfChars(UpToPadding(s))
  IN [n \in 1..(Len(bits) \div 8) |-> ByteAt(bits, n)]

\* secretRaw.replace(/-/g, "+").replace(/_/g, "/"), padded with "=" to a
\* multiple of four
RECURSIVE PadToFour(_)
PadToFour(s) == IF Len(s) % 4 # 0 THEN PadToFour(s \o <<"=">>) ELSE s

UrlSafeNormalized(s) ==
  PadToFour([i \in 1..Len(s) |-> CASE s[i] = "-" -> "+" [] s[i] = "_" -> "/" [] OTHER -> s[i]])

\* crypto.createHmac("sha256", key).update(msg).digest("hex"), collision-free
Hmac(key, msg) == <<key, msg>>

\* Buffer.concat([t, ".", rawBody])
SignedMessage(t, body) == t \o <<".">> \o body

\* a value that is undefined or the empty string
Missing == <<>>

\* Object.fromEntries(pairs)[k]: the value of the last pair with key k
MapGet(pairs, k) ==
  LET idx == {i \in 1..Len(pairs) : pairs[i][1] = k}
  IN IF idx = {} THEN Missing
     ELSE LET p == pairs[CHOOSE i \in idx : \A j \in idx : j <= i]
          IN IF Len(p) >= 2 THEN p[2] ELSE Missing

\* /^v\d+$/
VersionLabels == {"v1", "v2"}

ProvidedSig_V1Only(pairs) == MapGet(pairs, "v1")

\* map["v1"], else the value of the first pair whose key is v{n} and whose
\* value is not empty
ProvidedSig(pairs) ==
  IF MapGet(pairs, "v1") # Missing THEN MapGet(pairs, "v1")
  ELSE LET idx == {i \in 1..Len(pairs) : /\ pairs[i][1] \in VersionLabels
                                         /\ Len(pairs[i]) >= 2
                                         /\ pairs[i][2] # Missing}
       IN IF idx = {} THEN Missing
          ELSE pairs[CHOOSE i \in idx : \A j \in idx : i <= j][2]

\* verifySignature(header, rawBody) with DUFFEL_WEBHOOK_SECRET = secret; the
\* header is given as its pairs, each split at "=".
verifySignature(pairs, body, secret) ==
  LET t == MapGet(pairs, "t")
      providedSig == ProvidedSig(pairs)
      secretRaw == Trim(secret)
  IN IF t = Missing \/ providedSig = Missing THEN FALSE
     ELSE IF secretRaw = <<>> THEN FALSE
     ELSE LET msg == SignedMessage(t, body)
              kB64 == Base64Bytes(secretRaw)
              kB64u == Base64Bytes(UrlSafeNormalized(secretRaw))
          IN \/ Hmac(Utf8(secretRaw), msg) = providedSig
             \/ (kB64 # <<>> /\ Hmac(kB64, msg) = providedSig)
             \/ (kB64u # <<>> /\ Hmac(kB64u, msg) = providedSig)


\* Secrets an operator may configure: none, blank, four characters that are
\* standard Base64, URL-safe Base64, padded Base64, unpadded URL-safe Base64.
Secrets ==
  { <<>>, <<" ">>, <<"A", "B", "+", "/">>, <<"A", "B", "-", "_">>,
    <<"A", "B", "=", "=">>, <<"A", "B">> }

Timestamps == { <<"1">>, <<"2">> }
Bodies == { <<"b", "1">>, <<"b", "2">> }

Unpadded(s) == UpToPadding(s)

\* s is standard Base64: groups of four, "=" only as one or two last characters
IsStandardBase64(s) ==
  /\ Len(s) > 0 /\ Len(s) % 4 = 0
  /\ Len(s) - Len(Unpadded(s)) <= 2
  /\ \A i \in 1..Len(Unpadded(s)) : s[i] \in {"A", "B", "+", "/"}
  /\ \A i \in Len(Unpadded(s)) + 1..Len(s) : s[i] = "="

\* s is URL-safe Base64, padded or not
IsUrlSafeBase64(s) ==
  /\ Len(Unpadded(s)) > 0 /\ Len(Unpadded(s)) % 4 # 1
  /\ \A i \in 1..Len(Unpadded(s)) : s[i] \in {"A", "B", "-", "_"}
  /\ \A i \in Len(Unpadded(s)) + 1..Len(s) : s[i] = "="
  /\ (Len(s) = Len(Unpadded(s)) \/ Len(s) % 4 = 0)

\* The keys the configured secret denotes: its UTF-8 bytes, its bytes as
\* standard Base64, its bytes as URL-safe Base64.
SecretKeys(s) ==
  (IF s # <<>> THEN {Utf8(s)} ELSE {})
    \cup (IF IsStandardBase64(s) THEN {Base64Bytes(s)} ELSE {})
    \cup (IF IsUrlSafeBase64(s) THEN {Base64Bytes(s)} ELSE {})

\* a key no reading of any secret gives
OtherKey == <<7>>

Junk == << <<0>>, <<"j">> >>

\* Signatures a sender may put in the header: those of timestamp "1" and
\* body "b1" under a key of the configured secret or under another key, and
\* one that is no HMAC at all.  (The call may carry another timestamp or body.)
SigValues(secret) ==
  {Hmac(k, SignedMessage(<<"1">>, <<"b", "1">>)) :
     k \in SecretKeys(Trim(secret)) \cup {OtherKey}}
    \cup {Junk}

SigPairs(secret) ==
  {<<lab, v>> : lab \in {"v1", "v2", "sig"}, v \in SigValues(secret)} \cup {<<"v1">>}

TimePairs == {<<"t", t>> : t \in Timestamps} \cup {<<"t">>}

\* Headers: an optional timestamp pair followed by up to two signature pairs.
Headers(secret) ==
  LET ts == {<<p>> : p \in TimePairs} \cup {<<>>}
      cs == {<<>>} \cup {<<p>> : p \in SigPairs(secret)}
               \cup {<<p, q>> : p \in SigPairs(secret), q \in SigPairs(secret)}
  IN {t \o c : t \in ts, c \in cs}

\* One call of verifySignature per behaviour.
VerifyCall(pairs, body, secret) ==
  /\ ~verify.ran
  /\ verify' = [ran |-> TRUE, header |-> pairs, body |-> body, secret |-> secret,
                result |-> verifySignature(pairs, body, secret)]
  /\ UNCHANGED <<dbVars, whOnly, pollQueue, pollSeq, duffel, pollOnly, payOnly, ticketOnly,
                 refundOnly, request, conv>>

InitSig ==
  /\ users = {"u1"}
  /\ orders = NoRows
  /\ cancellations = NoRows
  /\ scheduleChanges = EmptyBag
  /\ processedKeys = {}
  /\ webhookEvents = NoRows
  /\ whQueue = EmptyBag
  /\ wstate = [w \in Workers |-> Idle]
  /\ deliveries = 0
  /\ pollQueue = {}
  /\ pollSeq = 0
  /\ applied = [k \in LedgerKeys |-> 0]
  /\ completed = [k \in LedgerKeys |-> 0]
  /\ skipped = [k \in LedgerKeys |-> 0]
  /\ duffel = [o \in OrderIds |-> NoDuffelOrder]
  /\ tickets = {}
  /\ orderChanges = {}
  /\ refreshes = 0
  /\ pollLog = [o \in OrderIds |-> 0]
  /\ PaymentsQuiet

NextSig ==
  \E secret \in Secrets, body \in Bodies :
    \E pairs \in Headers(secret) : VerifyCall(pairs, body, secret)

SpecSig == InitSig /\ [][NextSig]_vars

\* the header is a timestamp pair followed by one candidate, either of which
\* may be missing
SingleCandidate(h) ==
  \/ Len(h) = 2 /\ h[1][1] = "t" /\ h[2][1] \in VersionLabels
  \/ Len(h) = 1 /\ h[1][1] = "t"
  \/ Len(h) = 1 /\ h[1][1] \in VersionLabels

\* C24: for a header with timestamp t and one candidate s, verifySignature
\* returns true exactly when a secret is configured, t and s are present and
\* s is the HMAC of "t.rawBody" under the secret read as UTF-8, as standard
\* Base64 or as URL-safe Base64.
VerifiesExactlyTheThreeReadings ==
  (verify.ran /\ SingleCandidate(verify.header)) =>
    LET h == verify.header
        t == IF h[1][1] = "t" /\ Len(h[1]) = 2 THEN h[1][2] ELSE Missing
        c == h[Len(h)]
        s == IF c[1] \in VersionLabels /\ Len(c) = 2 THEN c[2] ELSE Missing
    IN verify.result <=>
         /\ t # Missing
         /\ s # Missing
         /\ \E k \in SecretKeys(Trim(verify.secret)) :
              s = Hmac(k, SignedMessage(t, verify.body))

\* a v2 candidate signed under the URL-safe reading of the secret was accepted
AcceptedUrlSafeReading ==
  /\ verify.ran /\ verify.result
  /\ verify.secret = <<"A", "B", "-", "_">>
  /\ Len(verify.header) = 2
  /\ verify.header[2][1] = "v2"
  /\ verify.header[2][2] = Hmac(Base64Bytes(<<"A", "B", "+", "/">>),
                                SignedMessage(verify.header[1][2], verify.body))


\* C25: a header whose timestamp is present is accepted as soon as one of
\* its v{n} candidates is the HMAC of "t.rawBody" under a reading of the
\* secret, whatever its position or label.
AnyMatchingCandidateAccepted ==
  (/\ verify.ran
   /\ MapGet(verify.header, "t") # Missing
   /\ \E i \in 1..Len(verify.header) :
        /\ verify.header[i][1] \in VersionLabels
        /\ Len(verify.header[i]) = 2
        /\ \E k \in SecretKeys(Trim(verify.secret)) :
             verify.header[i][2] =
               Hmac(k, SignedMessage(MapGet(verify.header, "t"), verify.body)))
    => verify.result


\* ---------------------------------------------------------------------------
\* DuffelWebhookController.handle
\* ---------------------------------------------------------------------------
MaxRequests == 2          \* requests to POST /webhooks/duffel per behaviour

\* DUFFEL_WEBHOOK_SECRET of the deployments considered
GateSecret == <<"A", "B">>

\* the raw body of the request that carries event ev
RawBody(ev) == <<ev.id>>

\* x-duffel-signature as the provider computes it, one that does not match,
\* and no header at all
GoodHeader(ev) ==
  << <<"t", <<"1">>>>,
     <<"v1", Hmac(Utf8(GateSecret), SignedMessage(<<"1">>, RawBody(ev)))>> >>

BadHeader == << <<"t", <<"1">>>>, <<"v1", Junk>> >>

NoHeader == <<>>

GateHeaders(ev) == {GoodHeader(ev), BadHeader, NoHeader}

\* the two throw statements of handle
Rejected(header, ok, devBypass) ==
  IF header = NoHeader THEN ~devBypass ELSE ~ok /\ ~devBypass

ReachesEnqueue_Always(rejected) == TRUE

\* enqueueAndPersist is called by a handler that has not thrown
ReachesEnqueue(rejected) == ~rejected

\* handle(req, res, signature) for a request carrying ev
handle(ev, header) ==
  /\ request.count < MaxRequests
  /\ LET ok == verifySignature(header, RawBody(ev), GateSecret)
         devBypass == request.env.devAccept
         rejected == Rejected(header, ok, devBypass)
     IN /\ request' = [request EXCEPT
                         !.count = @ + 1,
                         !.event = ev.id,
                         !.signature = IF header = NoHeader THEN "missing"
                                       ELSE IF ok THEN "valid" ELSE "invalid",
                         !.response = IF rejected THEN "401" ELSE "200"]
        /\ IF ReachesEnqueue(rejected)
             THEN /\ webhookEvents' = AuditInserted(ev)
                  /\ whQueue' = JobAdded(ev)
                  /\ deliveries' = deliveries + 1
             ELSE UNCHANGED <<webhookEvents, whQueue, deliveries>>
  /\ UNCHANGED <<dbVars, processedKeys, wstate, pollQueue, pollSeq, applied, completed,
                 skipped, duffel, pollOnly, payOnly, ticketOnly, refundOnly, verify, conv>>

\* process.env of the deployments considered
Environments ==
  [nodeEnv : {"production", "development"}, devAccept : BOOLEAN]

InitGate ==
  /\ \E st \in InitialStores : users = st.users /\ orders = st.orders
  /\ cancellations = NoRows
  /\ scheduleChanges = EmptyBag
  /\ processedKeys = {}
  /\ webhookEvents = NoRows
  /\ whQueue = EmptyBag
  /\ wstate = [w \in Workers |-> Idle]
  /\ deliveries = 0
  /\ pollQueue = {}
  /\ pollSeq = 0
  /\ applied = [k \in LedgerKeys |-> 0]
  /\ completed = [k \in LedgerKeys |-> 0]
  /\ skipped = [k \in LedgerKeys |-> 0]
  /\ duffel = [o \in OrderIds |-> NoDuffelOrder]
  /\ tickets = {}
  /\ orderChanges = {}
  /\ refreshes = 0
  /\ pollLog = [o \in OrderIds |-> 0]
  /\ AsideQuiet
  /\ \E e \in Environments : request = [NoRequest EXCEPT !.env = e]
  /\ pollRun = NoPollRun
  /\ persisted = NoPersist
  /\ refundLog = NoRefundLog
  /\ refundRows = {}
  /\ ticketSchema = "composite"
  /\ StripeQuiet

NextGate ==
  \/ \E ev \in WebhookCatalog : \E header \in GateHeaders(ev) : handle(ev, header)
  \/ WorkerTake("w1")
  \/ ProcLookup("w1")
  \/ DispatchOrderCreated("w1")
  \/ DispatchOrderUpdated("w1")
  \/ DispatchAirlineChange("w1")
  \/ DispatchCancellationCreated("w1")
  \/ DispatchCancellationConfirmed("w1")
  \/ DispatchNoop("w1")
  \/ ProcMark("w1")
  \/ ProcStamp("w1")

SpecGate == InitGate /\ [][NextGate]_vars

\* C26: in a production environment a request whose signature is missing or
\* does not verify is answered with Unauthorized.
ProductionRejectsUnverified ==
  (/\ request.count > 0
   /\ request.env.nodeEnv = "production"
   /\ request.signature \in {"missing", "invalid"})
    => request.response = "401"

\* C27: a request answered with Unauthorized leaves the audit table and the
\* webhook queue as they were.
RejectedLeavesNoTrace ==
  [][(request'.count # request.count /\ request'.response = "401")
       => (webhookEvents' = webhookEvents /\ whQueue' = whQueue)]_vars

\* a request with a bad signature was rejected while an earlier one is audited
RejectedAfterAccepted ==
  /\ request.count = 2
  /\ request.response = "401"
  /\ request.signature = "invalid"
  /\ DOMAIN webhookEvents # {}

\* C28: handling a request changes nothing but the audit table and the
\* webhook queue; an accepted request adds exactly one job for its event, and
\* when the event already has an audit row that row stays as it is.
RequestThreadOnlyAuditsAndEnqueues ==
  [][request'.count # request.count =>
       /\ UNCHANGED <<users, orders, cancellations, scheduleChanges, processedKeys, tickets,
                      pollQueue, wstate>>
       /\ request'.response = "200" =>
            /\ whQueue' = whQueue (+) SetToBag({[ev |-> request'.event, attemptsMade |-> 0]})
            /\ request'.event \in DOMAIN webhookEvents'
            /\ \A i \in DOMAIN webhookEvents : webhookEvents'[i] = webhookEvents[i]]_vars

\* an event whose audit row is already stamped as processed was accepted again
DuplicateAuditSwallowed ==
  /\ request.count = 2
  /\ request.response = "200"
  /\ request.event \in DOMAIN webhookEvents
  /\ webhookEvents[request.event].processedAt
  /\ BagCardinality(whQueue) = 1
  /\ DOMAIN orders # {}


\* ---------------------------------------------------------------------------
\* toMinorUnits / fromMinorUnits / amountsEqual on their own
\* ---------------------------------------------------------------------------
MaxAmountLen == 4         \* characters of an amount string

AmountChars == {0, 1, 9, DOT}

\* every string of at most n characters over digits and "."
AmountStrings(n) == UNION {[1..m -> AmountChars] : m \in 1..n}

\* currencies with exponent 2, 0, 1 and 3; one in lower case
ConvCurrencies == {"EUR", "eur", "JPY", "MGA", "BHD"}

\* amountsEqual(a, b, currency)
amountsEqual(a, b, currency) ==
  LET ma == toMinorUnits(a, currency)
      mb == toMinorUnits(b, currency)
  IN ma # InvalidAmount /\ mb # InvalidAmount /\ ma = mb

\* x with k more fractional zeros
AppendZeros(x, k) ==
  IF k = 0 THEN x
  ELSE IF \E i \in 1..Len(x) : x[i] = DOT THEN x \o Zeros(k)
  ELSE x \o <<DOT>> \o Zeros(k)

\* One conversion per behaviour: x and its variant y to minor units, and the
\* minor units of x back to a string.
Convert(x, k, c) ==
  /\ ~conv.ran
  /\ LET y == AppendZeros(x, k)
         m == toMinorUnits(x, c)
     IN conv' = [ran |-> TRUE, x |-> x, y |-> y, c |-> c, minor |-> m,
                 minorY |-> toMinorUnits(y, c),
                 back |-> IF m = InvalidAmount THEN NullAmt ELSE fromMinorUnits(m, c),
                 equal |-> amountsEqual(x, y, c)]
  /\ UNCHANGED <<dbVars, whOnly, pollQueue, pollSeq, duffel, pollOnly, payOnly, ticketOnly,
                 refundOnly, verify, request>>

NextConv ==
  \E x \in AmountStrings(MaxAmountLen), k \in 0..2, c \in ConvCurrencies : Convert(x, k, c)

SpecConv == InitSig /\ [][NextConv]_vars

\* the digits before and after the "." of a well-formed amount
IntDigits(x) ==
  IF \E i \in 1..Len(x) : x[i] = DOT
    THEN SubSeq(x, 1, (CHOOSE i \in 1..Len(x) : x[i] = DOT) - 1)
    ELSE x

FracDigits(x) ==
  IF \E i \in 1..Len(x) : x[i] = DOT
    THEN SubSeq(x, (CHOOSE i \in 1..Len(x) : x[i] = DOT) + 1, Len(x))
    ELSE <<>>

\* the integer part without leading zeros (one digit at least)
RECURSIVE NoLeadingZeros(_)
NoLeadingZeros(d) == IF Len(d) >= 2 /\ d[1] = 0 THEN NoLeadingZeros(Tail(d)) ELSE d

\* x with its integer part normalized
Normalized(x) ==
  NoLeadingZeros(IntDigits(x))
    \o (IF FracDigits(x) = <<>> THEN <<>> ELSE <<DOT>> \o FracDigits(x))

\* x with its integer part normalized and its fraction padded to n digits
Canonical(x, n) ==
  NoLeadingZeros(IntDigits(x))
    \o (IF n = 0 THEN <<>>
        ELSE <<DOT>> \o FracDigits(x) \o Zeros(n - Len(FracDigits(x))))

\* C29 as stated: for a well-formed x with at most N fractional digits the
\* round trip gives x back, up to leading zeros of the integer part.
RoundTripGivesBackInput ==
  (/\ conv.ran
   /\ ValidAmount(conv.x)
   /\ Len(FracDigits(conv.x)) <= Exponent(Upper(conv.c)))
    => conv.back = Normalized(conv.x)

\* C29 (amended): for a well-formed x with at most N fractional digits the
\* round trip gives x with its fraction padded with zeros to exactly N digits
\* (no fraction for N = 0), up to leading zeros of the integer part; so it
\* gives back x itself when x has exactly N fractional digits.
RoundTripGivesCanonicalForm ==
  (/\ conv.ran
   /\ ValidAmount(conv.x)
   /\ Len(FracDigits(conv.x)) <= Exponent(Upper(conv.c)))
    => /\ conv.back = Canonical(conv.x, Exponent(Upper(conv.c)))
       /\ Len(FracDigits(conv.x)) = Exponent(Upper(conv.c))
            => conv.back = Normalized(conv.x)

\* "01.9" in a three-digit currency came back as "1.900"
RoundTripPadded ==
  /\ conv.ran
  /\ conv.x = <<0, 1, DOT, 9>>
  /\ conv.c = "BHD"
  /\ conv.back = <<1, DOT, 9, 0, 0>>

\* C30: two well-formed amounts that differ only in trailing fractional
\* zeros have the same minor units in every currency, and amountsEqual
\* reports them equal.
TrailingZerosSameMinorUnits ==
  (conv.ran /\ ValidAmount(conv.x) /\ ValidAmount(conv.y))
    => /\ conv.minor = conv.minorY
       /\ conv.minor # InvalidAmount
       /\ conv.equal

\* "10" and "10.00" were compared
TenAndTenPointZeroZero ==
  /\ conv.ran
  /\ conv.x = <<1, 0>>
  /\ conv.y = <<1, 0, DOT, 0, 0>>
  /\ conv.minor = 1000
  /\ conv.equal

\* =====================================================================
\* Ticket-poll chain: requeue, termination, backoff
\* =====================================================================

\* C31: when poll attempt a (a < 15) persists no electronic-ticket document,
\* then once that attempt has completed (its job has left the queue) a poll
\* job for attempt a + 1 is pending for the order.  Stated on the runs for an
\* order whose provider record holds no electronic ticket.
RequeuedAfterEmptyAttempt ==
  [][\A j \in pollQueue :
       (/\ j.state = "active"
        /\ j \notin pollQueue'
        /\ j.attempt < MaxAttempts
        /\ EDocs(duffel[j.orderId].docs) = <<>>)
         => \E k \in pollQueue' : /\ k.orderId = j.orderId
                                  /\ k.attempt = j.attempt + 1
                                  /\ k.state \in {"waiting", "delayed"}]_vars

\* C32: every ticket-poll chain terminates without error: a run of the poller
\* ends without an exception, and it puts a job of its order into the queue
\* only when it persisted no electronic-ticket document and its attempt is
\* below 15, always with attempt + 1 (so no job carries an attempt above 15).
PollChainEndsWithoutError ==
  [][\A j \in pollQueue :
       (j.state = "active" /\ j \notin pollQueue')
         => /\ pollRun'.pc # "failed"
            /\ \A k \in pollQueue' \ pollQueue :
                 k.orderId = j.orderId
                   => /\ k.attempt = j.attempt + 1
                      /\ j.attempt < MaxAttempts
                      /\ tickets' = tickets
                      /\ k.attempt <= MaxAttempts]_vars

\* A poll job of any attempt number is waiting (job data {orderId, attempt});
\* it was added without a job id, so its requeue is not held back by its own id.
InitDelay ==
  /\ users = {"u1"}
  /\ orders = NoRows
  /\ cancellations = NoRows
  /\ scheduleChanges = EmptyBag
  /\ processedKeys = {}
  /\ webhookEvents = NoRows
  /\ whQueue = EmptyBag
  /\ wstate = [w \in Workers |-> Idle]
  /\ deliveries = 0
  /\ \E o \in OrderIds, a \in 1..MaxAttempts :
       pollQueue = QueueAddAuto({}, 0, o, a)
  /\ pollSeq = 1
  /\ applied = [k \in LedgerKeys |-> 0]
  /\ completed = [k \in LedgerKeys |-> 0]
  /\ skipped = [k \in LedgerKeys |-> 0]
  /\ duffel = [o \in OrderIds |->
                 [NoDuffelOrder EXCEPT !.exists = TRUE, !.type = "instant",
                    !.paidAt = TRUE, !.total_amount = Amt100, !.total_currency = "EUR"]]
  /\ tickets = {}
  /\ orderChanges = {}
  /\ refreshes = 0
  /\ pollLog = [o \in OrderIds |-> 0]
  /\ PaymentsQuiet

NextDelay ==
  \/ \E o \in OrderIds : DuffelIssuesTickets(o)
  \/ \E j \in pollQueue : PollTake(j)
  \/ \E j \in pollQueue, fetched \in BOOLEAN : PollProcess(j, fetched)

SpecDelay == InitDelay /\ [][NextDelay]_vars

\* min(60000, round(5000 x 1.6^(a-1))) for a = 1..14, worked out by hand:
\* 5000, 8000, 12800, 20480, 32768, 52428.8, 83886.08, ...
DelayTable ==
  <<5000, 8000, 12800, 20480, 32768, 52429, 60000, 60000, 60000, 60000, 60000,
    60000, 60000, 60000>>

\* C33: the requeue delay after poll attempt a (1 <= a < 15) equals
\* min(60000 ms, round(5000 x 1.6^(a-1))): it is 5000 ms for a = 1,
\* non-decreasing in a, and never exceeds 60000 ms.
RequeueDelayIsCappedBackoff ==
  pollRun.attempt > 0
    => /\ pollRun.attempt \in 1..(MaxAttempts - 1)
       /\ pollRun.delay = DelayTable[pollRun.attempt]
       /\ pollRun.attempt = 1 => pollRun.delay = 5000
       /\ pollRun.delay <= 60000
       /\ \A b \in 1..pollRun.attempt : RequeueDelay(b) <= pollRun.delay

\* Attempt 6 requeued: 5000 x 1.6^5 = 52428.8 is rounded to 52429.
RequeuedWithRoundedDelay == pollRun.attempt = 6 /\ pollRun.delay = 52429

\* =====================================================================
\* Webhook processor: merge, ledger, ignored events
\* =====================================================================
OrderMetaTypes == {"order.created", "order.updated"}

\* The columns upsertOrderMeta never writes on an existing row.
KeptColumns ==
  {"userId", "offerId", "paymentProvider", "paymentIntentId", "paymentStatus", "paidAt",
   "eticketReady"}

\* C34: applying order.created or order.updated to an existing Order is a
\* merge: status, amount, currency, owner and liveMode take the snapshot's
\* value when it is present and keep their own otherwise; the booking id,
\* userId, offerId, paymentIntentId, paymentStatus, paidAt and eticketReady
\* are not modified; lastEventType is set to the event type.
UpsertMergesIntoExistingOrder ==
  [][\A w \in Workers :
       (/\ wstate[w].pc = "dispatch"
        /\ wstate'[w].pc # "dispatch"
        /\ Ev(w).type \in OrderMetaTypes
        /\ Ev(w).oid # Null
        /\ OrderExists(Ev(w).oid))
         => LET ev == Ev(w)
                old == orders[ev.oid]
                new == orders'[ev.oid]
            IN /\ DOMAIN orders' = DOMAIN orders
               /\ \A o \in DOMAIN orders \ {ev.oid} : orders'[o] = orders[o]
               /\ new.status = IF ev.status # Null THEN ev.status ELSE old.status
               /\ new.amount = IF ev.amount # NullAmt THEN ev.amount ELSE old.amount
               /\ new.currency = IF ev.currency # Null THEN ev.currency ELSE old.currency
               /\ new.owner = IF ev.owner # Null THEN ev.owner ELSE old.owner
               /\ new.liveMode = IF ev.live_mode # Null THEN ev.live_mode = "true"
                                 ELSE old.liveMode
               /\ \A f \in KeptColumns : new[f] = old[f]
               /\ new.lastEventType = ev.type]_vars

\* order.updated (status only) was merged into the row order.created had
\* filled: the owner and the amount of the first snapshot are still there.
MergedStatusOnlyUpdate ==
  /\ OrderExists("o1")
  /\ orders["o1"].lastEventType = "order.updated"
  /\ orders["o1"].status = "confirmed"
  /\ orders["o1"].owner = "XX"
  /\ orders["o1"].amount = Amt100
  /\ completed[LedgerKey(EventById("ev1"))] >= 1

LedgerInsertFails ==
  \E w \in Workers : wstate[w].pc = "stamp" /\ applied[Key(w)] >= 2

\* Deliveries of ev1, of the envelopes that share its idempotency key, of a
\* ping and of an envelope of unknown type, processed by both workers.
NextLedger ==
  \/ \E ev \in TwinEvents \cup UnknownEvents \cup {EventById("ev1"), EventById("ev6")} :
       enqueueAndPersist(ev)
  \/ \E w \in Workers : DispatchNoop(w)
  \/ \E w \in Workers : WorkerTake(w)
  \/ \E w \in Workers : ProcLookup(w)
  \/ \E w \in Workers : DispatchOrderCreated(w)
  \/ \E w \in Workers : DispatchOrderUpdated(w)
  \/ \E w \in Workers : ProcMark(w)
  \/ \E w \in Workers : ProcStamp(w)

SpecLedger == Init /\ [][NextLedger]_vars

Stamped(e) == e.id \in DOMAIN webhookEvents /\ webhookEvents[e.id].processedAt

\* C36: the ledger key is type|idempotency_key for a non-empty key and
\* event|id otherwise; so of two events of different id with the same type
\* and idempotency key the second is suppressed as a duplicate and its audit
\* row is never stamped (the two rows are never both stamped), whereas an
\* event that shares the idempotency key but differs in type is skipped only
\* after it has itself been applied.
SameKeySecondEventSuppressed ==
  /\ \A e1, e2 \in WebhookCatalog \cup TwinEvents :
       (/\ e1.id # e2.id
        /\ e1.type = e2.type
        /\ e1.idem = e2.idem
        /\ e1.idem \notin {Null, ""})
         => ~(Stamped(e1) /\ Stamped(e2))
  /\ \A e \in WebhookCatalog \cup TwinEvents :
       skipped[LedgerKey(e)] > 0 => applied[LedgerKey(e)] >= 1

\* =====================================================================
\* Charge success for an instant order
\* =====================================================================

\* C37: on charge success for an order that is not awaiting payment (instant
\* type) the handler makes no settlement call, writes the linkage
\* (paymentProvider, paymentIntentId, paymentStatus = succeeded) without
\* setting status to paid or paidAt, and enqueues a ticket poll under job id
\* poll:<orderId>, also when the linkage update fails (no row, or the intent
\* id held by another row), in which case no Order is changed.
InstantChargeLinksAndPolls ==
  [][/\ (/\ pay.pc = "switch"
         /\ pay'.pc # "switch"
         /\ PayEv.type = "payment_intent.succeeded"
         /\ PayOrder # Null
         /\ duffel[PayOrder].exists
         /\ ~duffel[PayOrder].awaiting
         /\ duffel[PayOrder].type # "hold")
          => (pay'.pc \in {"instant", "idle"})
     /\ (pay.pc = "instant" /\ pay'.pc # "instant")
          => LET o == PayOrder
                 linkable == /\ OrderExists(o)
                             /\ ~\E x \in DOMAIN orders \ {o} :
                                   orders[x].paymentIntentId = PayIntent.id
             IN /\ settleCalls' = settleCalls
                /\ settled' = settled
                /\ pay'.pc = "idle"
                /\ payResult' = "received"
                /\ DOMAIN orders' = DOMAIN orders
                /\ \A x \in DOMAIN orders \ {o} : orders'[x] = orders[x]
                /\ linkable =>
                     (/\ orders'[o].paymentProvider = "STRIPE"
                      /\ orders'[o].paymentIntentId = PayIntent.id
                      /\ orders'[o].paymentStatus = "succeeded"
                      /\ orders'[o].paidAt = orders[o].paidAt
                      /\ \/ orders'[o].status = orders[o].status
                         \/ /\ orders[o].status = Null
                            /\ orders'[o].status = duffel[o].status
                            /\ orders'[o].status # "paid")
                /\ (~linkable) => (orders' = orders)
                /\ \E j \in pollQueue' :
                     j.id = PollJobId(o) /\ j.orderId = o /\ j.attempt = 1]_vars

\* The instant branch has run for an order with a row: the linkage is there,
\* the order is neither paid nor stamped, and the poll is pending.
InstantOrderLinked ==
  /\ OrderExists("o1")
  /\ orders["o1"].paymentStatus = "succeeded"
  /\ orders["o1"].paymentIntentId = "pi1"
  /\ orders["o1"].status # "paid"
  /\ ~orders["o1"].paidAt
  /\ settleCalls = {}
  /\ \E j \in pollQueue : j.id = PollJobId("o1")

\* The instant branch has run for an order without a row: the update failed
\* and the poll is pending all the same.
InstantPollWithoutRow ==
  /\ ~OrderExists("o1")
  /\ payResult = "received"
  /\ settleCalls = {}
  /\ \E j \in pollQueue : j.id = PollJobId("o1")

HandledTypes ==
  {"order.created", "order.updated", "order.airline_initiated_change_detected",
   "order_cancellation.created", "order_cancellation.confirmed"}

\* C38: processing an event of unrecognized type, or a ping.triggered event,
\* changes no Order, Cancellation, TicketDocument or schedule-change state
\* and enqueues no poll job, yet its key is recorded in the ledger and its
\* audit row is stamped processedAt, so a redelivery that is looked up after
\* the run has completed is skipped.
IgnoredEventOnlyMarked ==
  [][\A w \in Workers :
       (/\ wstate[w].pc # "idle"
        /\ wstate'[w] # wstate[w]
        /\ Ev(w).type \notin HandledTypes)
         => /\ UNCHANGED <<orders, cancellations, tickets, scheduleChanges, pollQueue>>
            /\ wstate[w].pc = "dispatch" => wstate'[w].pc = "mark"
            /\ wstate[w].pc = "mark"
                 => Key(w) \in processedKeys' /\ wstate'[w].pc = "stamp"
            /\ wstate[w].pc = "stamp"
                 => /\ Ev(w).id \in DOMAIN webhookEvents'
                    /\ webhookEvents'[Ev(w).id].processedAt
                    /\ wstate'[w] = Idle
            /\ (wstate[w].pc = "lookup" /\ completed[Key(w)] >= 1)
                 => /\ wstate'[w] = Idle
                    /\ skipped'[Key(w)] = skipped[Key(w)] + 1]_vars

\* The event of unknown type was processed and its redelivery skipped.
UnknownEventMarkedThenSkipped ==
  \E e \in UnknownEvents :
    /\ LedgerKey(e) \in processedKeys
    /\ Stamped(e)
    /\ completed[LedgerKey(e)] >= 1
    /\ skipped[LedgerKey(e)] >= 1

\* The same for ping.triggered.
PingMarkedThenSkipped ==
  /\ LedgerKey(EventById("ev6")) \in processedKeys
  /\ Stamped(EventById("ev6"))
  /\ skipped[LedgerKey(EventById("ev6"))] >= 1

\* =====================================================================
\* eticketReady across the components
\* =====================================================================
\* Booking o1 through the engine, its tickets and polls, the Booking-Provider
\* event order.updated, the Payment-Provider notification of a failed charge
\* and the refund API.
NextReady ==
  \/ \E d \in NewDuffelOrders : OrdersCreate("o1", d)
  \/ DuffelIssuesTickets("o1")
  \/ \E j \in pollQueue : PollTake(j)
  \/ \E j \in pollQueue : PollProcess(j, TRUE)
  \/ enqueueAndPersist(EventById("ev2"))
  \/ WorkerTake("w1")
  \/ ProcLookup("w1")
  \/ DispatchOrderUpdated("w1")
  \/ ProcMark("w1")
  \/ ProcStamp("w1")
  \/ StripeDeliver(StripeEventById("se3"))
  \/ PayFailed
  \/ refundOrder("o1", NullAmt, "refundable", TRUE, "pi1", TRUE, "id", TRUE)

SpecReady == InitPoll /\ [][NextReady]_vars

HasTicket(tk, o) == \E t \in tk : t.orderId = o

ExtraDigits == {<<9>>, <<1>>, <<0, 9>>, <<5, 0>>}

\* x with its fraction filled up to the currency's exponent and d behind it
ExtendBeyond(x, d, c) ==
  LET exp == Exponent(Upper(c))
      frac == FracDigits(x)
  IN IntDigits(x) \o <<DOT>> \o frac
       \o (IF Len(frac) < exp THEN Zeros(exp - Len(frac)) ELSE <<>>) \o d

\* One classification per behaviour: a refunded amount x against an order
\* total that differs from it only beyond the currency's precision
\* (handleWebhook lines 517-526).
Truncate(x, d, c) ==
  /\ ~conv.ran
  /\ LET y == ExtendBeyond(x, d, c)
         m == toMinorUnits(x, c)
     IN conv' = [ran |-> TRUE, x |-> x, y |-> y, c |-> c, minor |-> m,
                 minorY |-> toMinorUnits(y, c),
                 back |-> IF m = InvalidAmount THEN NullAmt ELSE fromMinorUnits(m, c),
                 equal |-> IsFullRefund(x, c, y, c)]
  /\ UNCHANGED <<dbVars, whOnly, pollQueue, pollSeq, duffel, pollOnly, payOnly, ticketOnly,
                 refundOnly, verify, request>>

NextTrunc ==
  \E x \in AmountStrings(MaxAmountLen), d \in ExtraDigits, c \in ConvCurrencies :
    Truncate(x, d, c)

SpecTrunc == InitSig /\ [][NextTrunc]_vars

\* C40: toMinorUnits cuts off the fractional digits beyond the currency's
\* exponent, neither rounding nor rejecting them: for every well-formed x and
\* every extra digit string d, x extended by d beyond the exponent has the
\* minor units of x, and the two compare equal in the full-refund
\* classification.
DigitsBeyondExponentAreCutOff ==
  (/\ conv.ran
   /\ ValidAmount(conv.x)
   /\ \E d \in ExtraDigits : conv.y = ExtendBeyond(conv.x, d, conv.c))
    => /\ ValidAmount(conv.y)
       /\ conv.minorY # InvalidAmount
       /\ conv.minorY = conv.minor
       /\ conv.equal

\* "10" and "10.9" in JPY were classified as equal.
TenAndTenPointNineYen ==
  /\ conv.ran
  /\ conv.x = <<1, 0>>
  /\ conv.y = <<1, 0, DOT, 9>>
  /\ conv.c = "JPY"
  /\ conv.minor = 10
  /\ conv.minorY = 10
  /\ conv.equal

\* "1.00" and "1.009" in EUR were classified as equal.
OneAndOnePointZeroZeroNine ==
  /\ conv.ran
  /\ conv.x = <<1, DOT, 0, 0>>
  /\ conv.y = <<1, DOT, 0, 0, 9>>
  /\ conv.c = "EUR"
  /\ conv.minorY = 100
  /\ conv.equal

====
